---- MODULE Spec2Model ----
(***************************************************************************)
(* A model of the tracker-module player of q3k/track: the cell and effect  *)
(* decoding, Sample::play, the SamplePlayback voice and the Player         *)
(* sequencer of src/src/promod.rs, the Interpolator of src/src/dsp.rs and  *)
(* the Play / Pause / Stop buttons of src/src/main.rs; Module::load; the  *)
(* ADSR envelope and the PolyphonicGenerator of src/src/sound.rs; the      *)
(* Application of src/src/main.rs with its control thread, its render      *)
(* callback and the mutex around the AudioSink; the mix of one frame.      *)
(*                                                                         *)
(* Conventions.                                                            *)
(*  - Option<T> is a sequence: <<>> is None, <<x>> is Some(x).             *)
(*  - A Rust panic (index out of bounds, arithmetic overflow in a build    *)
(*    with overflow checks) is recorded in the field `panic`, which names  *)
(*    the panicking expression ("none" while running); the state keeps the *)
(*    assignments made before it, and nothing runs afterwards (the shared  *)
(*    mutex is poisoned).                                                  *)
(*  - overflow_checks is the build profile: TRUE panics on integer         *)
(*    overflow (debug), FALSE wraps (release).                             *)
(*  - f32 arithmetic is computed bit for bit (see "f32 arithmetic") in    *)
(*    the tempo, the Interpolator, the sample conversion, the ADSR, the    *)
(*    mix and NoteApprox; the scale of Sample::play is an exact rational,  *)
(*    truncated where the code casts to usize.                             *)
(*  - A 32-bit cell is the pair of its 16-bit halves [hi, lo], value       *)
(*    hi * 65536 + lo.                                                     *)
(***************************************************************************)
EXTENDS Integers, Sequences, FiniteSets, TLC

VARIABLES
    player,           \* promod::Player (Tracker.player of main.rs)
    overflow_checks,  \* build profile: integer overflow panics (TRUE) or wraps
    ret,              \* value returned by the last Player::next call
    op,               \* the last operation performed on the player
    ticks_since_load, \* history: tick events since the last row load
    pb,               \* a stand-alone SamplePlayback<S> over a plain signal
    pb_got,           \* indices passed to signal.get by the last SamplePlayback::next
    pb_ret,           \* value returned by the last SamplePlayback::next
    pb_op,            \* the last operation performed on pb
    pb_prev,          \* history: pb.state before the last operation
    pb_panicked,      \* a SamplePlayback::next call on pb panicked
    calc,             \* the last pure function applied: [fn, arg, out]
    loading,          \* a Module::load in progress, or its result
    env,              \* a sound::ADSR envelope and what its last call reported
    poly,             \* a sound::PolyphonicGenerator
    app,              \* the Application of main.rs: its two threads and the sink
    clock,            \* history: the calls and tick events between row loads
    kbd               \* an input::Keyboard and the events drained from it

vars == <<player, overflow_checks, ret, op, ticks_since_load,
          pb, pb_got, pb_ret, pb_op, pb_prev, pb_panicked, calc, loading,
          env, poly, app, clock, kbd>>
playerVars == <<player, overflow_checks, ret, op, ticks_since_load, clock>>
pbVars == <<pb, pb_got, pb_ret, pb_op, pb_prev, pb_panicked>>
synthVars == <<env, poly, app>>
auxVars == <<calc, loading, synthVars>>

None == <<>>
Some(x) == <<x>>
IsSome(o) == o /= <<>>
Unwrap(o) == o[1]

Min(a, b) == IF a < b THEN a ELSE b

(***************************************************************************)
(* Bounds and program constants                                            *)
(***************************************************************************)
\* Output sample rate handed to Player::new (44100 in main.rs; small here so
\* that a division lasts a few calls of next()).
SampleRate == 17
\* Largest signal length of the stand-alone SamplePlayback.
MaxLen == 3
\* Length, in words, of the longest sample of the files loaded.
MaxWords == 2
\* Largest target length of the resampled 8-bit signals.
MaxTarget == 10
\* The longest attack, decay or release time, in eighths of a second
MaxEnv == 8
\* The number of samples a pool of voices renders.
MaxNext == 4
\* The number of frames of one buffer of the audio device.
BatchFrames == 2

\* The largest number of pool voices mixed in one frame.
MaxVoices == 4

\* The number of row loads a timed player is followed for.
MaxRows == 2

\* The output sample rate main.rs asks the audio device for.
MainSampleRate == 44100
\* The length of a visualization buffer.
ScopeLen == 512

NumSamples == 31
ProgramLen == 128
NumRows == 64
NumChannels == 4
MaxVolume == 64
\* Sample::play: from = (7093789.2 / (4 * 127)) / (440 / freq) with
\* freq = 440 * 254 / period is 3546894.6 / period, so that
\* scale = to / from = sample_rate * 5 * period / 17734473.
ClockDen == 17734473

(***************************************************************************)
(* Cell decoding (Data) and Effect::from                                   *)
(***************************************************************************)
Data(hi, lo) == [hi |-> hi, lo |-> lo]

sample_number(c) == (((c.hi \div 4096) % 16) * 16 + ((c.lo \div 4096) % 16)) % 256

period(c) == c.hi % 4096

Eff(kind, x, y) == [kind |-> kind, x |-> x, y |-> y]

\* Mutant of EffectFrom: the pattern break row is read as hexadecimal.
EffectFrom_hex_break(v) ==
    LET a == (v \div 256) % 16
        z0 == v % 256
        z == IF z0 = 0 THEN 1 ELSE z0
    IN  CASE a = 10 -> Eff("VolumeSlide", z0 \div 16, z0 % 16)
          [] a = 12 -> Eff("SetVolume", z0, 0)
          [] a = 13 -> Eff("PatternBreak", z0, 0)
          [] a = 14 /\ z0 \div 16 = 10 -> Eff("FineVolumeSlideUp", z0 % 16, 0)
          [] a = 14 /\ z0 \div 16 = 11 -> Eff("FineVolumeSlideDown", z0 % 16, 0)
          [] a = 15 /\ z <= 32 -> Eff("SetTicksPerDivision", z, 0)
          [] a = 15 /\ z > 32 -> Eff("SetBeatsPerMinute", z, 0)
          [] OTHER -> Eff("Unknown", 0, 0)

EffectFrom(v) ==
    LET a == (v \div 256) % 16
        b == (v \div 16) % 16
        c == v % 16
        z0 == b * 16 + c
        z == IF z0 = 0 THEN 1 ELSE z0
    IN  CASE a = 10 -> Eff("VolumeSlide", b, c)
          [] a = 12 -> Eff("SetVolume", z0, 0)
          [] a = 13 -> Eff("PatternBreak", b * 10 + c, 0)
          [] a = 14 /\ b = 10 -> Eff("FineVolumeSlideUp", c, 0)
          [] a = 14 /\ b = 11 -> Eff("FineVolumeSlideDown", c, 0)
          [] a = 15 /\ z <= 32 -> Eff("SetTicksPerDivision", z, 0)
          [] a = 15 /\ z > 32 -> Eff("SetBeatsPerMinute", z, 0)
          [] OTHER -> Eff("Unknown", 0, 0)

effect(c) == EffectFrom(c.lo % 4096)

\* Data::note: Note(440 * 254 / period).  A Note is kept as the period it was
\* made from; its frequency is 111760 / period.
note(c) == period(c)

(***************************************************************************)
(* Modules.  A decoded Module is named by a descriptor [order, vol, a, b]; *)
(* its program table, cells and sample headers are read through the        *)
(* accessors below, as Module::load would have stored them.                *)
(***************************************************************************)
Mod(order, vol, a, b) == [order |-> order, vol |-> vol, a |-> a, b |-> b]

Orders == {"zero", "first1", "alt"}

\* Module.program: the 128-byte order table (index 0 .. 127).
ModProgramAt(m, i) ==
    CASE m.order \in {"zero", "quiet"} -> 0
      [] m.order = "first1" -> IF i = 0 THEN 1 ELSE 0
      [] m.order = "alt" -> i % 2

ModProgramLen(m) == ProgramLen

\* npatterns = max(order table) + 1
ModNPatterns(m) == IF m.order \in {"zero", "quiet"} THEN 1 ELSE 2

\* Module.samples[n], n in 0 .. 30, as parse_header / set_data leave it:
\* data.len() = length * 2.
ModSample(m, n) ==
    CASE n = 0 -> [length |-> 500, volume |-> m.vol, repeat_start |-> 125, repeat_length |-> 250]
      [] n = 1 -> [length |-> 0, volume |-> 64, repeat_start |-> 0, repeat_length |-> 1]
      [] n = 2 -> [length |-> 400, volume |-> 48, repeat_start |-> 0, repeat_length |-> 1]
      [] OTHER -> [length |-> 0, volume |-> 0, repeat_start |-> 0, repeat_length |-> 0]

DataLen(s) == s.length * 2

\* Module.patterns[p].rows[r].channels[ch]
ModCell(m, p, r, ch) ==
    LET A == IF p = 0 THEN m.a ELSE m.b
        B == IF p = 0 THEN m.b ELSE m.a
    IN  CASE m.order = "quiet" -> IF ch = 1 THEN m.a ELSE Data(0, 0)
          [] r = 0 /\ ch = 0 -> Data(0, 3426)       \* effect D62: break to row 62
          [] r = 0 /\ ch = 1 -> A
          [] r = 62 /\ ch = 2 -> Data(856, 6659)    \* sample 1, period 856, effect A03
          [] r = 63 /\ ch = 1 -> B
          [] OTHER -> Data(0, 0)

Empty == Data(0, 0)
NoteSample1 == Data(856, 4096)      \* sample 1, period 856
NoteOnly == Data(428, 0)            \* period 428, no sample
SampleOnly == Data(0, 8192)         \* sample 2, no period
NoteSample3 == Data(856, 12288)     \* sample 3 (not looped), period 856
NoteSample32 == Data(8192 + 856, 0) \* sample 0x20 = 32, period 856
NoteSample255 == Data(61440 + 856, 61440)  \* sample 0xFF = 255, period 856
SetVol32 == Data(0, 3104)           \* effect C20
SetVol80 == Data(0, 3152)           \* effect C50
FineUpNote == Data(856, 4096 + 3759)    \* sample 1, period 856, effect EAF
FineDown5 == Data(0, 3765)          \* effect EB5
SlideDownNote == Data(856, 4096 + 2575) \* sample 1, period 856, effect A0F
SlideUp2 == Data(0, 2592)           \* effect A20
SlideBoth == Data(0, 2577)          \* effect A11
Break64 == Data(0, 3428)            \* effect D64: row 6 * 10 + 4 = 64
BreakFF == Data(0, 3583)            \* effect DFF: row 15 * 10 + 15 = 165
Break00 == Data(0, 3328)            \* effect D00
Bpm33 == Data(0, 3873)              \* effect F21: 33 beats per minute
Tpd1 == Data(0, 3840)               \* effect F00: z = 0 becomes 1 tick per division

\* Cells tried in channel 1 of row 0 (a) and of row 63 (b).
CellSetA == {Empty, NoteSample1, NoteOnly, SampleOnly, NoteSample3, NoteSample32,
             NoteSample255, FineUpNote, SlideDownNote, Break64, BreakFF, Break00,
             Bpm33, Tpd1}

CellSetB == {NoteOnly, SampleOnly, SetVol32, SetVol80, FineDown5, SlideUp2, SlideBoth}

VolumeBytes == {0, 64, 65, 255}

Modules ==
    {Mod("zero", 64, a, Empty) : a \in CellSetA}
    \cup {Mod("zero", 64, NoteSample1, b) : b \in CellSetB}
    \cup {Mod(o, 64, NoteSample1, Empty) : o \in Orders}
    \cup {Mod("zero", v, a, Empty) : v \in VolumeBytes, a \in {NoteSample1, FineUpNote}}

\* The builds explored: every module with overflow checks, and without them
\* the modules in which an integer overflow happens (the two profiles behave
\* alike everywhere else).
Builds ==
    {<<m, TRUE>> : m \in Modules}
    \cup {<<Mod("zero", v, FineUpNote, Empty), FALSE>> : v \in VolumeBytes}

(***************************************************************************)
(* f32 arithmetic.  A non-negative f32 is [m, e], the value m * 2^e with   *)
(* m < 2^24 (24 significant bits); every operation rounds its exact result *)
(* to the nearest such value, ties to even, as IEEE 754 single precision   *)
(* does.  Signs are handled by the callers; the exponent range is never    *)
(* left by the values used here.                                           *)
(***************************************************************************)
F32(m, e) == [m |-> m, e |-> e]

RECURSIVE BitLen(_)
BitLen(n) == IF n = 0 THEN 0 ELSE 1 + BitLen(n \div 2)

\* p / 2^sh rounded to the nearest integer, ties to even.
RoundShift(p, sh) ==
    IF sh = 0 THEN p
    ELSE LET q == p \div (2 ^ sh)
             r == p % (2 ^ sh)
             half == 2 ^ (sh - 1)
         IN  IF r > half \/ (r = half /\ q % 2 = 1) THEN q + 1 ELSE q

\* A mantissa of 2^24 is the 24-bit mantissa 2^23 one exponent up.
F32Norm(x) == IF x.m = 16777216 THEN F32(8388608, x.e + 1) ELSE x

\* The f32 nearest to p * 2^e, for an integer 0 <= p < 2^31.
F32Of(p, e) ==
    IF BitLen(p) <= 24 THEN F32(p, e)
    ELSE F32Norm(F32(RoundShift(p, BitLen(p) - 24), e + BitLen(p) - 24))

F32Int(n) == F32Of(n, 0)

\* Long division: q is the quotient so far, r < b the remainder, e the
\* exponent of q's last bit; stops at 24 significant bits or when exact.
RECURSIVE F32LongDiv(_, _, _, _)
F32LongDiv(q, r, b, e) ==
    IF q >= 8388608 \/ r = 0
    THEN F32Norm(F32(IF 2 * r > b \/ (2 * r = b /\ q % 2 = 1) THEN q + 1 ELSE q, e))
    ELSE IF 2 * r >= b THEN F32LongDiv(2 * q + 1, 2 * r - b, b, e - 1)
    ELSE F32LongDiv(2 * q, 2 * r, b, e - 1)

\* x / y, y > 0
F32Div(x, y) ==
    IF x.m = 0 THEN F32(0, 0)
    ELSE F32LongDiv(x.m \div y.m, x.m % y.m, y.m, x.e - y.e)

\* x * y: the 48-bit product of the mantissas in 12-bit limbs, rounded.
F32Mul(x, y) ==
    LET ah == x.m \div 4096
        al == x.m % 4096
        bh == y.m \div 4096
        bl == y.m % 4096
        lo == al * bl
        t1 == ah * bl + al * bh + (lo \div 4096)
        t2 == ah * bh + (t1 \div 4096)
        low24 == (t1 % 4096) * 4096 + (lo % 4096)
        n == BitLen(t2)
        q == t2 * (2 ^ (24 - n)) + (low24 \div (2 ^ n))
        r == low24 % (2 ^ n)
        half == 2 ^ (n - 1)
    IN  IF t2 = 0 THEN F32(low24, x.e + y.e)
        ELSE F32Norm(F32(IF r > half \/ (r = half /\ q % 2 = 1) THEN q + 1 ELSE q,
                         x.e + y.e + n))

\* x < y
F32Lt(x, y) ==
    LET e == Min(x.e, y.e)
    IN  IF y.m = 0 THEN FALSE
        ELSE IF x.m = 0 THEN TRUE
        ELSE IF BitLen(x.m) + x.e /= BitLen(y.m) + y.e
        THEN BitLen(x.m) + x.e < BitLen(y.m) + y.e
        ELSE x.m * (2 ^ (x.e - e)) < y.m * (2 ^ (y.e - e))

\* x /= 0 with its mantissa shifted up to 24 bits
F32Top(x) ==
    F32(x.m * (2 ^ (24 - BitLen(x.m))), x.e - (24 - BitLen(x.m)))

\* x in units of 2^e, for x below 2^(e + 28): the bits under 2^e are
\* dropped and, when any of them was set, the last kept bit is set (the
\* sticky bit of the hardware's alignment shift).
F32Jam(x, e) ==
    IF x.e >= e THEN x.m * (2 ^ (x.e - e))
    ELSE IF e - x.e > 24 THEN (IF x.m = 0 THEN 0 ELSE 1)
    ELSE LET q == x.m \div (2 ^ (e - x.e))
         IN  IF x.m % (2 ^ (e - x.e)) /= 0 /\ q % 2 = 0 THEN q + 1 ELSE q

\* x - y, for x >= y: y aligned four bits below x's last bit, the
\* difference rounded.
F32Sub(x, y) ==
    IF y.m = 0 THEN x
    ELSE LET b == F32Top(x)
         IN  F32Of(b.m * 16 - F32Jam(y, b.e - 4), b.e - 4)

\* x + y: the smaller operand aligned four bits below the larger one's
\* last bit, the sum rounded.
F32Add(x, y) ==
    IF x.m = 0 THEN y
    ELSE IF y.m = 0 THEN x
    ELSE LET big == F32Top(IF F32Lt(x, y) THEN y ELSE x)
             small == IF F32Lt(x, y) THEN x ELSE y
         IN  F32Of(big.m * 16 + F32Jam(small, big.e - 4), big.e - 4)

\* floor(x), the `as usize` of a non-negative f32
F32Floor(x) ==
    IF x.e >= 0 THEN x.m * (2 ^ x.e)
    ELSE IF 0 - x.e > 30 THEN 0
    ELSE x.m \div (2 ^ (0 - x.e))

\* x = y as numbers (the mantissas need not be normalised alike)
F32Eq(x, y) ==
    LET e == Min(x.e, y.e)
    IN  \/ x.m = 0 /\ y.m = 0
        \/ /\ x.m /= 0 /\ y.m /= 0
           /\ BitLen(x.m) + x.e = BitLen(y.m) + y.e
           /\ x.m * (2 ^ (x.e - e)) = y.m * (2 ^ (y.e - e))

(***************************************************************************)
(* Signals (dsp.rs).  A signal is [kind, src, length]: a plain Vec of      *)
(* `length` samples (kind "vec"), or an Interpolator of `length` samples   *)
(* over an underlying signal of `src` samples (kind "interp").             *)
(***************************************************************************)
VecSignal(n) == [kind |-> "vec", src |-> 0, length |-> n]
Resampled(src, n) == [kind |-> "interp", src |-> src, length |-> n]

SignalLength(sig) == sig.length

\* Interpolator::get, for S, T >= 2: ratio = (T - 1) / (S - 1) and
\* uix = ix / ratio, both in f32.
Uix(S, T, ix) == F32Div(F32Int(ix), F32Div(F32Int(T - 1), F32Int(S - 1)))

\* Interpolator::get without the short circuit at the right-hand side
InterpolatorGet_no_shortcut(S, T, ix, oc) ==
    IF S = 0 THEN [panic |-> FALSE, reads |-> {}]
    ELSE IF T = 0 THEN
        IF oc THEN [panic |-> TRUE, reads |-> {}]
        ELSE IF S = 1 THEN [panic |-> FALSE, reads |-> {0}]
        ELSE [panic |-> FALSE, reads |-> {0, 1}]
    ELSE IF S = 1 THEN [panic |-> TRUE, reads |-> {0}]
    ELSE IF T = 1 THEN
        IF ix = 0 THEN [panic |-> FALSE, reads |-> {0, 1}]
        ELSE [panic |-> TRUE, reads |-> {}]
    ELSE
        LET uix0 == F32Floor(Uix(S, T, ix))
        IN  IF uix0 >= S - 1 THEN [panic |-> TRUE, reads |-> {uix0}]
            ELSE [panic |-> FALSE, reads |-> {uix0, uix0 + 1}]

\* Interpolator::get(ix) over a source of S samples: the source indices it
\* reads, and whether it panics (index out of bounds, or usize overflow).
InterpolatorGet(S, T, ix, oc) ==
    IF S = 0 THEN [panic |-> FALSE, reads |-> {}]
    ELSE IF T = 0 THEN
        \* self.length - 1 underflows: panic, or a huge ratio and uix ~ 0
        IF oc THEN [panic |-> TRUE, reads |-> {}]
        ELSE IF S = 1 THEN [panic |-> FALSE, reads |-> {0}]
        ELSE [panic |-> FALSE, reads |-> {0, 1}]
    ELSE IF S = 1 THEN
        \* ratio is inf or NaN, uix is 0 or NaN, uix0 = 0 = S - 1
        [panic |-> FALSE, reads |-> {0}]
    ELSE IF T = 1 THEN
        \* ratio = 0: uix is NaN (ix = 0, uix0 = 0) or inf (uix0 = usize::MAX)
        IF ix = 0 THEN [panic |-> FALSE, reads |-> {0, 1}]
        ELSE [panic |-> TRUE, reads |-> {}]
    ELSE
        LET uix0 == F32Floor(Uix(S, T, ix))
        IN  IF uix0 = S - 1 THEN [panic |-> FALSE, reads |-> {uix0}]
            ELSE IF uix0 >= S THEN [panic |-> TRUE, reads |-> {}]
            ELSE [panic |-> FALSE, reads |-> {uix0, uix0 + 1}]

Abs(x) == IF x < 0 THEN 0 - x ELSE x

\* `as i8` of the f32 of sign `neg` and magnitude w: truncates toward zero
\* and saturates.
AsI8(neg, w) ==
    IF neg THEN 0 - Min(F32Floor(w), 128) ELSE Min(F32Floor(w), 127)

\* Mutant of mult_weigh: the product is rounded to the nearest integer.
mult_weigh_rounds(x, w) ==
    AsI8(x < 0, F32Of(F32Floor(F32Mul(F32Of(2 * Abs(x), 0), w)) + 1, 0 - 1))

\* <i8 as Sample>::mult_weigh: ((*self as f32) * w) as i8, for w >= 0
mult_weigh(x, w) == AsI8(x < 0, F32Mul(F32Int(Abs(x)), w))

\* <i8 as Sample>::add_saturated: *self + o, a plain i8 addition:
\* [panic, val]
add_saturated(a, b, oc) ==
    IF a + b \in (0 - 128)..127 THEN [panic |-> FALSE, val |-> a + b]
    ELSE IF oc THEN [panic |-> TRUE, val |-> 0]
    ELSE [panic |-> FALSE, val |-> ((a + b + 128) % 256) - 128]

\* Interpolator<Vec<i8>>::get(ix) over the samples src (Len(src) >= 2) for a
\* target length T >= 2: [panic, val]
InterpolatorGetI8(src, T, ix, oc) ==
    LET S == Len(src)
        uix == Uix(S, T, ix)
        uix0 == F32Floor(uix)
        duix0 == F32Sub(uix, F32Int(uix0))
        duix1 == F32Sub(F32Int(1), duix0)
    IN  IF uix0 = S - 1 THEN [panic |-> FALSE, val |-> src[uix0 + 1]]
        ELSE IF uix0 >= S THEN [panic |-> TRUE, val |-> 0]
        ELSE add_saturated(mult_weigh(src[uix0 + 1], duix1),
                           mult_weigh(src[uix0 + 2], duix0), oc)

\* input.resample(T).iter().collect(): the T values, or <<"panic">>
ResampleI8(src, T, oc) ==
    IF \E i \in 0..(T - 1) : InterpolatorGetI8(src, T, i, oc).panic THEN <<"panic">>
    ELSE [i \in 1..T |-> InterpolatorGetI8(src, T, i - 1, oc).val]

\* A signed f32: the sign and the magnitude.
SignedF32(neg, w) == [neg |-> neg /\ w.m /= 0, m |-> w.m, e |-> w.e]

\* Mutant of sample_convert_from: an 8-bit range of 256 values.
sample_convert_from_256(t) ==
    LET f == F32Div(F32Int(t + 128), F32Int(256))
        half == F32Of(1, 0 - 1)
        d == IF F32Floor(F32Mul(f, F32Int(2))) >= 1 THEN F32Sub(f, half) ELSE F32Sub(half, f)
    IN  SignedF32(F32Floor(F32Mul(f, F32Int(2))) < 1, F32(d.m, d.e + 1))

\* <f32 as SampleConvertFrom<i8>>::sample_convert_from:
\* ((t as f32 + 128.0) / 255.0 - 0.5) * 2.0
sample_convert_from(t) ==
    LET f == F32Div(F32Int(t + 128), F32Int(255))
        half == F32Of(1, 0 - 1)
        d == IF F32Floor(F32Mul(f, F32Int(2))) >= 1 THEN F32Sub(f, half) ELSE F32Sub(half, f)
    IN  SignedF32(F32Floor(F32Mul(f, F32Int(2))) < 1, F32(d.m, d.e + 1))

\* input.convert::<f32>().iter().collect(): Converter::length and ::get
ConvertI8(src) == [i \in 1..Len(src) |-> sample_convert_from(src[i])]

\* Signal::get(ix)
SignalGet(sig, ix, oc) ==
    IF sig.kind = "vec"
    THEN [panic |-> ix >= sig.length, reads |-> IF ix < sig.length THEN {ix} ELSE {}]
    ELSE InterpolatorGet(sig.src, sig.length, ix, oc)

(***************************************************************************)
(* SamplePlayback                                                          *)
(***************************************************************************)
Stopped == [tag |-> "Stopped", ix |-> 0]
First(ix) == [tag |-> "First", ix |-> ix]
Repeating(ix) == [tag |-> "Repeating", ix |-> ix]

SamplePlayback(signal, repeat, state, volume) ==
    [signal |-> signal, repeat |-> repeat, state |-> state, volume |-> volume]

_length(g) ==
    IF IsSome(g.repeat) THEN Unwrap(g.repeat)[1] + Unwrap(g.repeat)[2]
    ELSE SignalLength(g.signal)

_restart(g) ==
    IF IsSome(g.repeat) THEN [g EXCEPT !.state = Repeating(Unwrap(g.repeat)[1])]
    ELSE [g EXCEPT !.state = Stopped]

_forward(g) ==
    IF g.state.tag = "Stopped" THEN g
    ELSE [g EXCEPT !.state.ix = @ + 1]

_ix(g) == g.state.ix

\* The value val * volume / 64 returned by SamplePlayback::next, kept as the
\* index read and the volume; <<>> is 0.0.
Silence == <<>>
Sounding(ix, volume) == <<[ix |-> ix, volume |-> volume]>>

\* SamplePlayback::next: [g: the playback afterwards, panicked, got: the
\* index handed to signal.get (None when get is not called), out]
SamplePlaybackNext(g, oc) ==
    IF g.state.tag = "Stopped"
    THEN [g |-> g, panicked |-> FALSE, got |-> None, out |-> Silence]
    ELSE
        LET ix == _ix(g)
            length == _length(g)
            g1 == IF ix >= length THEN _restart(g) ELSE g
            val == SignalGet(g1.signal, ix, oc)
        IN  IF val.panic
            THEN [g |-> g1, panicked |-> TRUE, got |-> Some(ix), out |-> Silence]
            ELSE [g |-> _forward(g1), panicked |-> FALSE, got |-> Some(ix),
                  out |-> Sounding(ix, g1.volume)]

trigger_start(g) == [g EXCEPT !.state = First(0)]

\* Mutant of trigger_end: a playback that is already looping is not cut.
trigger_end_spares_loop(g) ==
    IF g.state.tag = "Repeating" THEN g ELSE [g EXCEPT !.state = Stopped]

trigger_end(g) == [g EXCEPT !.state = Stopped]

(***************************************************************************)
(* Sample::play                                                            *)
(***************************************************************************)
\* (x as f32) * scale as usize, scale = sample_rate * 5 * period / 17734473
Scaled(x, n) == (x * SampleRate * 5 * n) \div ClockDen

play(s, n) ==
    LET length == Scaled(DataLen(s), n)
        repeat == IF s.repeat_length > 1
                  THEN Some(<<Min(Scaled(s.repeat_start * 2, n), length),
                              Min(Scaled(s.repeat_length * 2, n), length)>>)
                  ELSE None
    IN  SamplePlayback(Resampled(DataLen(s), length), repeat, Stopped, s.volume)

(***************************************************************************)
(* Channel and Player                                                      *)
(***************************************************************************)
Panicked(p) == p.panic /= "none"
Panic(p, what) == [p EXCEPT !.panic = what]

ChannelNew ==
    [generator |-> None, last_sample |-> None, last_note |-> None, volume_slide |-> None]

\* Channel i (0-based, as in the code) is channels[i + 1].
Chan(p, i) == p.channels[i + 1]

Cell(p, i) == ModCell(p.module, p.pattern, p.row, i)

\* Mutant of _dpm: 12 divisions per beat instead of 24.
_dpm_twelve(bpm, tpd) == F32Div(F32Int(12 * bpm), F32Int(tpd))

\* Player::_dpm: (24.0 * bpm) / tpd, divisions per minute
_dpm(bpm, tpd) == F32Div(F32Int(24 * bpm), F32Int(tpd))

\* (60.0 / self._dpm()) * (self.sample_rate as f32)
InDivision(bpm, tpd, sr) == F32Mul(F32Div(F32Int(60), _dpm(bpm, tpd)), F32Int(sr))

\* The value _division_left_reset stores: in_division as usize
DivisionLength(bpm, tpd, sr) == F32Floor(InDivision(bpm, tpd, sr))

\* The value _tick_left_reset stores: (in_division / tpd) as usize
TickLength(bpm, tpd, sr) == F32Floor(F32Div(InDivision(bpm, tpd, sr), F32Int(tpd)))

_division_left_reset(p) ==
    [p EXCEPT !.division_left = DivisionLength(p.native_bpm, p.native_tpd, p.sample_rate)]

_tick_left_reset(p) ==
    [p EXCEPT !.tick_left = TickLength(p.native_bpm, p.native_tpd, p.sample_rate)]

\* The effective note and sample of a cell for channel i; 0 / None = skip.
CellHasNote(p, i) == period(Cell(p, i)) /= 0 \/ IsSome(Chan(p, i).last_note)

EffectiveNote(p, i) ==
    IF period(Cell(p, i)) = 0 THEN Unwrap(Chan(p, i).last_note) ELSE note(Cell(p, i))

EffectiveSample(p, i) ==
    IF sample_number(Cell(p, i)) /= 0 THEN sample_number(Cell(p, i))
    ELSE IF IsSome(Chan(p, i).last_sample) THEN Unwrap(Chan(p, i).last_sample)
    ELSE 0

\* One iteration of the first loop of _load_row.
TriggerChannel(p, i) ==
    LET c == Cell(p, i)
    IN  IF period(c) = 0 /\ sample_number(c) = 0 THEN p
        ELSE IF ~CellHasNote(p, i) THEN p
        ELSE IF EffectiveSample(p, i) = 0 THEN p
        ELSE IF EffectiveSample(p, i) - 1 >= NumSamples
        THEN Panic(p, "samples[sample-1]")     \* index out of bounds
        ELSE
            LET sp == trigger_start(play(ModSample(p.module, EffectiveSample(p, i) - 1),
                                         EffectiveNote(p, i)))
            IN  [p EXCEPT !.channels[i + 1].generator = Some(sp),
                          !.channels[i + 1].last_sample = Some(EffectiveSample(p, i)),
                          !.channels[i + 1].last_note = Some(EffectiveNote(p, i))]

RECURSIVE TriggerChannels(_, _)
TriggerChannels(p, i) ==
    IF i >= NumChannels \/ Panicked(p) THEN p
    ELSE TriggerChannels(TriggerChannel(p, i), i + 1)

ClampVolume(v) == IF v > MaxVolume THEN MaxVolume ELSE IF v < 0 THEN 0 ELSE v

\* One iteration of the loop of _apply_enter_effects.
ApplyEnterEffect(p, i, oc) ==
    LET e == effect(Cell(p, i))
        ch == Chan(p, i)
    IN  CASE e.kind = "VolumeSlide" ->
              IF e.x = 0 /\ e.y /= 0 THEN [p EXCEPT !.channels[i + 1].volume_slide = Some(0 - e.y)]
              ELSE IF e.y = 0 /\ e.x /= 0 THEN [p EXCEPT !.channels[i + 1].volume_slide = Some(e.x)]
              ELSE p
          [] e.kind = "PatternBreak" -> [p EXCEPT !.incoming_break = Some(e.x)]
          [] e.kind = "SetBeatsPerMinute" -> [p EXCEPT !.native_bpm = e.x]
          [] e.kind = "SetTicksPerDivision" -> [p EXCEPT !.native_tpd = e.x]
          [] e.kind = "SetVolume" ->
              IF IsSome(ch.generator)
              THEN [p EXCEPT !.channels[i + 1].generator[1].volume =
                                 IF e.x % 256 > 64 THEN 64 ELSE e.x % 256]
              ELSE p
          [] e.kind = "FineVolumeSlideUp" ->
              IF IsSome(ch.generator)
              THEN LET sum == Unwrap(ch.generator).volume + e.x
                   IN  IF sum > 255 /\ oc
                       THEN Panic(p, "volume += up")        \* u8 overflow
                       ELSE [p EXCEPT !.channels[i + 1].generator[1].volume =
                                          IF sum % 256 > 64 THEN 64 ELSE sum % 256]
              ELSE p
          [] e.kind = "FineVolumeSlideDown" ->
              IF IsSome(ch.generator)
              THEN [p EXCEPT !.channels[i + 1].generator[1].volume =
                                 IF e.x > @ THEN 0 ELSE @ - e.x]
              ELSE p
          [] OTHER -> p

RECURSIVE ApplyEnterEffects(_, _, _)
ApplyEnterEffects(p, i, oc) ==
    IF i >= NumChannels \/ Panicked(p) THEN p
    ELSE ApplyEnterEffects(ApplyEnterEffect(p, i, oc), i + 1, oc)

_apply_enter_effects(p, oc) == ApplyEnterEffects(p, 0, oc)

\* A row load that leaves the armed slides as they are
ClearSlides_keeps(p) == p

ClearSlides(p) ==
    [p EXCEPT !.channels = [i \in 1..NumChannels |-> [p.channels[i] EXCEPT !.volume_slide = None]]]

_load_row(p, oc) ==
    IF p.pattern >= ModNPatterns(p.module) \/ p.row >= NumRows
    THEN Panic(p, "rows[row]")                 \* patterns[pattern].rows[row]
    ELSE
        LET p1 == TriggerChannels(p, 0)
        IN  IF Panicked(p1) THEN p1
            ELSE _apply_enter_effects([ClearSlides(p1) EXCEPT !.tick = 0], oc)

\* _next_division up to, not including, its call of _load_row.
AdvanceRow(p) ==
    LET p1 == _division_left_reset(p)
        brk == IsSome(p1.incoming_break)
        next_row == IF brk THEN Unwrap(p1.incoming_break)
                    ELSE IF p1.row >= 63 THEN 0 ELSE p1.row + 1
        advance_pattern == brk \/ p1.row >= 63
        program == IF p1.program + 1 >= ModProgramLen(p1.module) THEN 0 ELSE p1.program + 1
        p2 == [p1 EXCEPT !.incoming_break = None, !.row = next_row]
    IN  IF advance_pattern
        THEN [p2 EXCEPT !.program = program,
                        !.pattern = ModProgramAt(p2.module, program)]
        ELSE p2

_next_division(p, oc) == _load_row(AdvanceRow(p), oc)

SlideChannel(c) ==
    IF IsSome(c.volume_slide) /\ IsSome(c.generator)
    THEN [c EXCEPT !.generator[1].volume = ClampVolume(@ + Unwrap(c.volume_slide))]
    ELSE c

\* Mutant of _next_tick: the slide is applied on the row's entry tick too.
_next_tick_slides_on_entry(p) ==
    LET p1 == _tick_left_reset(p)
    IN  [p1 EXCEPT !.channels = [i \in 1..NumChannels |-> SlideChannel(p1.channels[i])],
                   !.tick = @ + 1]

_next_tick(p) ==
    LET p1 == _tick_left_reset(p)
        p2 == IF p1.tick /= 0
              THEN [p1 EXCEPT !.channels = [i \in 1..NumChannels |-> SlideChannel(p1.channels[i])]]
              ELSE p1
    IN  [p2 EXCEPT !.tick = @ + 1]

\* Player::new(module, sample_rate): the struct literal, then the resets and
\* the load of row 0.
FreshPlayer(m) ==
    [playing |-> FALSE, module |-> m, program |-> 0, pattern |-> 0,
     row |-> 0, tick |-> 0, native_tpd |-> 6, native_bpm |-> 125,
     division_left |-> 0, tick_left |-> 0, sample_rate |-> SampleRate,
     incoming_break |-> None,
     channels |-> [i \in 1..NumChannels |-> ChannelNew],
     panic |-> "none"]

BeforeFirstLoad(m) == _tick_left_reset(_division_left_reset(FreshPlayer(m)))

PlayerNew(m, oc) == _load_row(BeforeFirstLoad(m), oc)

\* Player::new at the sample rate sr
PlayerNewAt(m, sr, oc) ==
    _load_row(_tick_left_reset(_division_left_reset(
                  [FreshPlayer(m) EXCEPT !.sample_rate = sr])), oc)

\* The mixing loop of Player::next: st = [p, ret], channel i next.
RECURSIVE MixChannels(_, _, _)
MixChannels(st, i, oc) ==
    IF i >= NumChannels \/ Panicked(st.p) THEN st
    ELSE IF ~IsSome(Chan(st.p, i).generator) THEN MixChannels(st, i + 1, oc)
    ELSE
        LET r == SamplePlaybackNext(Unwrap(Chan(st.p, i).generator), oc)
            p1 == [st.p EXCEPT !.channels[i + 1].generator = Some(r.g),
                               !.panic = IF r.panicked THEN "signal.get" ELSE "none"]
            term == IF r.out = Silence THEN <<>>
                    ELSE <<[ch |-> i, ix |-> r.out[1].ix, volume |-> r.out[1].volume]>>
        IN  MixChannels([p |-> p1, ret |-> st.ret \o term], i + 1, oc)

\* Player::next, the tick countdown
TickPhase(p) ==
    IF p.tick_left = 0 THEN _next_tick(p) ELSE [p EXCEPT !.tick_left = @ - 1]

\* Player::next, the division countdown
DivisionPhase(p, oc) ==
    IF p.division_left = 0 THEN _next_division(p, oc)
    ELSE [p EXCEPT !.division_left = @ - 1]

\* Mutant of PlayerNext: the countdowns run while the player is paused.
PlayerNext_counts_while_paused(p, oc) ==
    IF p.playing = FALSE THEN [p |-> DivisionPhase(TickPhase(p), oc), ret |-> <<>>]
    ELSE MixChannels([p |-> DivisionPhase(TickPhase(p), oc), ret |-> <<>>], 0, oc)

\* Player::next: [p: the player afterwards, ret: the value returned, as the
\* terms of the 0.3-weighted sum; <<>> is 0.0]
PlayerNext(p, oc) ==
    IF p.playing = FALSE THEN [p |-> p, ret |-> <<>>]
    ELSE MixChannels([p |-> DivisionPhase(TickPhase(p), oc), ret |-> <<>>], 0, oc)

(***************************************************************************)
(* Specification Spec: a Player built from a module, driven by the render  *)
(* callback (Player::next) and by the Play / Pause / Stop buttons.         *)
(***************************************************************************)
IdlePlayback == SamplePlayback(Resampled(0, 0), None, Stopped, 0)

CalcIdle == [fn |-> "none", arg |-> <<>>, out |-> <<>>]

NotLoading == [pc |-> "none"]

NoClock == [op |-> "none"]

NoKeyboard == [op |-> "none"]

SynthIdle ==
    /\ env = [op |-> "none"]
    /\ poly = [op |-> "none"]
    /\ app = [op |-> "none"]

AuxIdle ==
    /\ calc = CalcIdle
    /\ loading = NotLoading
    /\ SynthIdle

PbIdle ==
    /\ pb = IdlePlayback
    /\ pb_got = None
    /\ pb_ret = Silence
    /\ pb_op = "idle"
    /\ pb_prev = Stopped
    /\ pb_panicked = FALSE

Init ==
    /\ kbd = NoKeyboard
    /\ \E b \in Builds :
          /\ player = PlayerNew(b[1], b[2])
          /\ overflow_checks = b[2]
    /\ ret = <<>>
    /\ op = "new"
    /\ ticks_since_load = 0
    /\ clock = NoClock
    /\ PbIdle
    /\ AuxIdle

\* fill_sound_buffer: one frame, p.next()
PlayerNextCall ==
    /\ ~Panicked(player)
    /\ LET r == PlayerNext(player, overflow_checks)
       IN  /\ player' = r.p
           /\ ret' = r.ret
    /\ op' = "next"
    /\ ticks_since_load' =
          IF ~player.playing THEN ticks_since_load
          ELSE IF player.division_left = 0 THEN 0
          ELSE IF player.tick_left = 0 THEN ticks_since_load + 1
          ELSE ticks_since_load
    /\ UNCHANGED <<overflow_checks, clock, pbVars, kbd, auxVars>>

\* The "Play" button, shown while the player is not playing.
Play ==
    /\ ~Panicked(player)
    /\ ~player.playing
    /\ player' = [player EXCEPT !.playing = TRUE]
    /\ op' = "play"
    /\ UNCHANGED <<overflow_checks, ret, ticks_since_load, clock, pbVars, kbd, auxVars>>

\* The "Pause" button, shown while the player is playing.
Pause ==
    /\ ~Panicked(player)
    /\ player.playing
    /\ player' = [player EXCEPT !.playing = FALSE]
    /\ op' = "pause"
    /\ UNCHANGED <<overflow_checks, ret, ticks_since_load, clock, pbVars, kbd, auxVars>>

\* The "Stop" button, shown while the player is playing.
Stop ==
    /\ ~Panicked(player)
    /\ player.playing
    /\ player' = [player EXCEPT !.playing = FALSE, !.row = 0, !.program = 0, !.pattern = 0]
    /\ op' = "stop"
    /\ UNCHANGED <<overflow_checks, ret, ticks_since_load, clock, pbVars, kbd, auxVars>>

Next == PlayerNextCall \/ Play \/ Pause \/ Stop

Spec == Init /\ [][Next]_vars

(***************************************************************************)
(* Specification SpecPB: one SamplePlayback built by Sample::play, as a    *)
(* PolyphonicGenerator voice: trigger_start, trigger_end and next in any   *)
(* order.                                                                  *)
(***************************************************************************)
PBSamples ==
    {[length |-> 100 * l, volume |-> v, repeat_start |-> 50 * a, repeat_length |-> 50 * b] :
        l \in 0..MaxLen, a \in 0..MaxLen, b \in 0..MaxLen, v \in {0, 48}}

PBNotes == {428, 856, 4095}

PlayerIdle ==
    /\ player = PlayerNew(Mod("zero", 64, Empty, Empty), FALSE)
    /\ ret = <<>>
    /\ op = "idle"
    /\ ticks_since_load = 0
    /\ clock = NoClock

InitPB ==
    /\ kbd = NoKeyboard
    /\ \E s \in PBSamples, n \in PBNotes : pb = play(s, n)
    /\ overflow_checks \in BOOLEAN
    /\ pb_got = None
    /\ pb_ret = Silence
    /\ pb_op = "play"
    /\ pb_prev = Stopped
    /\ pb_panicked = FALSE
    /\ PlayerIdle
    /\ AuxIdle

PBTriggerStart ==
    /\ ~pb_panicked
    /\ pb' = trigger_start(pb)
    /\ pb_op' = "trigger_start"
    /\ pb_prev' = pb.state
    /\ UNCHANGED <<pb_got, pb_ret, pb_panicked, playerVars, auxVars, kbd>>

PBTriggerEnd ==
    /\ ~pb_panicked
    /\ pb' = trigger_end(pb)
    /\ pb_op' = "trigger_end"
    /\ pb_prev' = pb.state
    /\ UNCHANGED <<pb_got, pb_ret, pb_panicked, playerVars, auxVars, kbd>>

PBNext ==
    /\ ~pb_panicked
    /\ LET r == SamplePlaybackNext(pb, overflow_checks)
       IN  /\ pb' = r.g
           /\ pb_got' = r.got
           /\ pb_ret' = r.out
           /\ pb_panicked' = r.panicked
    /\ pb_op' = "next"
    /\ pb_prev' = pb.state
    /\ UNCHANGED <<playerVars, auxVars, kbd>>

NextPB == PBTriggerStart \/ PBTriggerEnd \/ PBNext

SpecPB == InitPB /\ [][NextPB]_vars

(***************************************************************************)
(* Specification SpecCalc: the pure functions, applied to inputs drawn     *)
(* from bounded sets.                                                      *)
(***************************************************************************)
Calc(fn, arg, out) == [fn |-> fn, arg |-> arg, out |-> out]

\* calc.out is None until the function has been applied, then Some(result).
Pending == None

\* Tempo values an F effect can set (and the defaults of Player::new), at
\* the model's sample rate and at the one main.rs uses.
TempoBpms == 33..255
TempoTpds == 1..32
TempoRates == {SampleRate, MainSampleRate}

\* The 8-bit signals resampled: the one of tests::test_resample_i8 and
\* every signal of 2 or 3 samples over a few values.
TestSignal == <<0, 0, 0, 0, 127, 127, 127, 127>>
PcmValues == {0 - 128, 0 - 3, 30, 127}
Sources ==
    {TestSignal}
    \cup {<<a, b>> : a \in PcmValues, b \in PcmValues}
    \cup {<<a, b, c>> : a \in PcmValues, b \in PcmValues, c \in PcmValues}

\* The 8-bit signals converted: the one of tests::test_convert_i8_f32 and
\* every signal of one sample.
TestPcm == <<0 - 128, 0 - 128, 0 - 128, 0 - 128, 0, 0, 0, 0, 127, 127, 127, 127>>
ConvertSources == {TestPcm} \cup {<<raw>> : raw \in (0 - 128)..127}

\* The magnitude of a signed f32
Mag(x) == F32(x.m, x.e)

\* x + y of two signed f32
SignedAdd(x, y) ==
    IF x.neg = y.neg THEN SignedF32(x.neg, F32Add(Mag(x), Mag(y)))
    ELSE IF F32Lt(Mag(x), Mag(y)) THEN SignedF32(y.neg, F32Sub(Mag(y), Mag(x)))
    ELSE SignedF32(x.neg, F32Sub(Mag(x), Mag(y)))

\* x * w, w >= 0
SignedMul(x, w) == SignedF32(x.neg, F32Mul(Mag(x), w))

Zero == SignedF32(FALSE, F32(0, 0))

\* The literal 0.3 of the two mixing loops
MixWeight == F32Div(F32Int(3), F32Int(10))

\* `res += v * 0.3` over the voices, in PolyphonicGenerator::next and in
\* Player::next
RECURSIVE MixSum(_, _)
MixSum(vs, res) ==
    IF vs = <<>> THEN res
    ELSE MixSum(Tail(vs), SignedAdd(res, SignedMul(Head(vs), MixWeight)))

\* SamplePlayback::next of a sounding voice: val * (volume as f32 / 64.0),
\* val the converted PCM value
ChannelValue(raw, volume) ==
    SignedMul(sample_convert_from(raw), F32Div(F32Int(volume), F32Int(MaxVolume)))

\* (v * 32767.0) as i16: truncated toward zero, saturating
AsI16(v) ==
    LET w == F32Mul(Mag(v), F32Int(32767))
    IN  IF v.neg THEN (IF F32Lt(F32Int(32768), w) THEN 0 - 32768 ELSE 0 - F32Floor(w))
        ELSE IF F32Lt(F32Int(32767), w) THEN 32767 ELSE F32Floor(w)

\* fill_sound_buffer, one frame: pool the values of the pool's voices,
\* chans the values of the player's sounding channels
FrameMix(pool, chans) ==
    LET v_p == MixSum(pool, Zero)
        v_t == MixSum(chans, Zero)
        v == SignedAdd(v_p, v_t)
    IN  [v_p |-> v_p, v_t |-> v_t, v |-> v, sample |-> AsI16(v)]

\* A square wave at the oscillator's volume 0.9 under a full envelope
SquareValues == {SignedF32(neg, F32Div(F32Int(9), F32Int(10))) : neg \in BOOLEAN}

RECURSIVE SeqsUpTo(_, _)
SeqsUpTo(S, n) ==
    IF n = 0 THEN {<<>>}
    ELSE SeqsUpTo(S, n - 1) \cup
         {Append(q, x) : q \in {w \in SeqsUpTo(S, n - 1) : Len(w) = n - 1}, x \in S}

\* The pools mixed: up to MaxVoices square voices
MixPools == SeqsUpTo(SquareValues, MaxVoices)

\* The player's channels mixed: up to NumChannels voices at full volume
\* on the PCM values -128 and 127
MixChans == SeqsUpTo({ChannelValue(raw, MaxVolume) : raw \in {0 - 128, 127}}, NumChannels)

\* The 8-bit samples added: the ends of the range and values around 0.
AddValues == {0 - 128, 0 - 100, 0 - 1, 0, 1, 100, 127}

CalcInputs ==
    {Calc("tempo", <<bpm, tpd, sr>>, Pending) :
        bpm \in TempoBpms, tpd \in TempoTpds, sr \in TempoRates}
    \cup {Calc("effect", <<v>>, Pending) : v \in 0..4095}
    \cup {Calc("resample", <<src, T>>, Pending) : src \in Sources, T \in 2..MaxTarget}
    \cup {Calc("convert", <<src>>, Pending) : src \in ConvertSources}
    \cup {Calc("mix", <<pool, chans>>, Pending) : pool \in MixPools, chans \in MixChans}
    \cup {Calc("add", <<a, b>>, Pending) : a \in AddValues, b \in AddValues}
    \cup {Calc("get", <<S, T, i>>, Pending) :
              S \in 1..MaxTarget, T \in 1..MaxTarget, i \in 0..(MaxTarget - 1)}

InitCalc ==
    /\ kbd = NoKeyboard
    /\ calc \in CalcInputs
    /\ loading = NotLoading
    /\ SynthIdle
    /\ overflow_checks \in BOOLEAN
    /\ PlayerIdle
    /\ PbIdle

\* _division_left_reset and _tick_left_reset at a tempo and sample rate
CalcTempo ==
    /\ calc.fn = "tempo"
    /\ calc.out = Pending
    /\ calc' = [calc EXCEPT !.out = Some(<<DivisionLength(calc.arg[1], calc.arg[2], calc.arg[3]),
                                           TickLength(calc.arg[1], calc.arg[2], calc.arg[3])>>)]
    /\ UNCHANGED <<overflow_checks, playerVars, pbVars, kbd, loading, synthVars>>

\* Effect::from(v)
CalcEffect ==
    /\ calc.fn = "effect"
    /\ calc.out = Pending
    /\ calc' = [calc EXCEPT !.out = Some(EffectFrom(calc.arg[1]))]
    /\ UNCHANGED <<overflow_checks, playerVars, pbVars, kbd, loading, synthVars>>

\* input.resample(T).iter().collect::<Vec<i8>>()
CalcResample ==
    /\ calc.fn = "resample"
    /\ calc.out = Pending
    /\ calc' = [calc EXCEPT !.out = Some(ResampleI8(calc.arg[1], calc.arg[2], overflow_checks))]
    /\ UNCHANGED <<overflow_checks, playerVars, pbVars, kbd, loading, synthVars>>

\* input.convert::<f32>().iter().collect::<Vec<f32>>()
CalcConvert ==
    /\ calc.fn = "convert"
    /\ calc.out = Pending
    /\ calc' = [calc EXCEPT !.out = Some(ConvertI8(calc.arg[1]))]
    /\ UNCHANGED <<overflow_checks, playerVars, pbVars, kbd, loading, synthVars>>

\* fill_sound_buffer: one frame mixed
CalcMix ==
    /\ calc.fn = "mix"
    /\ calc.out = Pending
    /\ calc' = [calc EXCEPT !.out = Some(FrameMix(calc.arg[1], calc.arg[2]))]
    /\ UNCHANGED <<overflow_checks, playerVars, pbVars, kbd, loading, synthVars>>

\* a.add_saturated(b) on two 8-bit samples
CalcAdd ==
    /\ calc.fn = "add"
    /\ calc.out = Pending
    /\ calc' = [calc EXCEPT !.out = Some(add_saturated(calc.arg[1], calc.arg[2],
                                                       overflow_checks))]
    /\ UNCHANGED <<overflow_checks, playerVars, pbVars, kbd, loading, synthVars>>

\* source.resample(T).get(i) over a source of S samples, i < T
CalcGet ==
    /\ calc.fn = "get"
    /\ calc.out = Pending
    /\ calc.arg[3] < calc.arg[2]
    /\ calc' = [calc EXCEPT !.out = Some(InterpolatorGet(calc.arg[1], calc.arg[2],
                                                         calc.arg[3],
                                                         overflow_checks))]
    /\ UNCHANGED <<overflow_checks, playerVars, pbVars, kbd, loading, synthVars>>

NextCalc ==
    \/ CalcGet
    \/ CalcTempo
    \/ CalcEffect
    \/ CalcResample
    \/ CalcConvert
    \/ CalcMix
    \/ CalcAdd

SpecCalc == InitCalc /\ [][NextCalc]_vars

(***************************************************************************)
(* Module::load.  A file is [size, title_ok, bad_name, maxorder]: its      *)
(* length in bytes, whether the 20 title bytes are UTF-8, the index of the *)
(* sample header whose name is not UTF-8 (-1: none) and the largest entry  *)
(* of its order table.  Its sample headers declare FileWords(i) words.     *)
(* `loading` is the load in progress: pc is the section read next, i the   *)
(* index within the section, pos the bytes consumed, and finally the       *)
(* outcome ("ok": a Module, "err": the Error in err, "panic").             *)
(***************************************************************************)
File(size, title_ok, bad_name, maxorder) ==
    [size |-> size, title_ok |-> title_ok, bad_name |-> bad_name, maxorder |-> maxorder]

\* Sample::length, in words, of header i (0-based); data.len() is twice that.
FileWords(i) == IF i = 0 THEN MaxWords ELSE IF i = NumSamples - 1 THEN 1 ELSE 0

HeaderBytes == 30
TitleBytes == 20
NameBytes == 22
PatternBytes == NumRows * NumChannels * 4

\* promod::Error: IOError(UnexpectedEof), ParseError(what) and
\* SampleError { sample, inner }, as [kind, sample, inner, what].
IOError == [kind |-> "IOError", sample |-> 0 - 1, inner |-> "none", what |-> "none"]
ParseError(what) == [kind |-> "ParseError", sample |-> 0 - 1, inner |-> "none", what |-> what]
\* Mutant of SampleError: the sample is counted from 1.
SampleError_one_based(i, e) ==
    [kind |-> "SampleError", sample |-> i + 1, inner |-> e.kind, what |-> e.what]

SampleError(i, e) == [kind |-> "SampleError", sample |-> i, inner |-> e.kind, what |-> e.what]

LoadStart(f) ==
    [file |-> f, pc |-> "title", i |-> 0, pos |-> 0, npatterns |-> 0,
     headers |-> 0, patterns |-> 0, datas |-> 0,
     outcome |-> "running", err |-> IOError, failed |-> "none"]

Remaining(l) == l.file.size - l.pos

\* `?` on an Err: load returns it; nothing else is read.
LoadFail(l, e) == [l EXCEPT !.outcome = "err", !.err = e, !.failed = l.pc, !.pc = "done"]

\* f.read_exact(&mut title)?; from_utf8(&title).or(Err(ParseError("invalid title")))?
LoadTitle ==
    /\ loading.pc = "title"
    /\ loading' =
          IF Remaining(loading) < TitleBytes THEN LoadFail(loading, IOError)
          ELSE IF ~loading.file.title_ok THEN LoadFail(loading, ParseError("invalid title"))
          ELSE [loading EXCEPT !.pos = @ + TitleBytes, !.pc = "header", !.i = 0]
    /\ UNCHANGED <<overflow_checks, playerVars, pbVars, kbd, calc, synthVars>>

\* Sample::parse_header: the Error it returns on the rest of the file, or None
parse_header(l) ==
    IF Remaining(l) < NameBytes THEN Some(IOError)
    ELSE IF l.file.bad_name = l.i THEN Some(ParseError("invalid name"))
    ELSE IF Remaining(l) < HeaderBytes THEN Some(IOError)
    ELSE None

\* One step of (0..31).map(|i| parse_header(..).map_err(SampleError{i, ..})).collect()?
LoadHeader ==
    /\ loading.pc = "header"
    /\ loading' =
          IF IsSome(parse_header(loading))
          THEN LoadFail(loading, SampleError(loading.i, Unwrap(parse_header(loading))))
          ELSE [loading EXCEPT !.pos = @ + HeaderBytes, !.headers = @ + 1,
                               !.i = IF loading.i + 1 < NumSamples THEN loading.i + 1 ELSE 0,
                               !.pc = IF loading.i + 1 < NumSamples THEN "header" ELSE "song_length"]
    /\ UNCHANGED <<overflow_checks, playerVars, pbVars, kbd, calc, synthVars>>

\* let _npos = f.read_u8()?; let _unused = f.read_u8()?;
LoadSongLength ==
    /\ loading.pc = "song_length"
    /\ loading' =
          IF Remaining(loading) < 2 THEN LoadFail(loading, IOError)
          ELSE [loading EXCEPT !.pos = @ + 2, !.pc = "order_table"]
    /\ UNCHANGED <<overflow_checks, playerVars, pbVars, kbd, calc, synthVars>>

\* f.read_exact(&mut ptable)?
LoadOrderTable ==
    /\ loading.pc = "order_table"
    /\ loading' =
          IF Remaining(loading) < ProgramLen THEN LoadFail(loading, IOError)
          ELSE [loading EXCEPT !.pos = @ + ProgramLen, !.pc = "signature"]
    /\ UNCHANGED <<overflow_checks, playerVars, pbVars, kbd, calc, synthVars>>

\* f.read_exact(&mut signature)?
LoadSignature ==
    /\ loading.pc = "signature"
    /\ loading' =
          IF Remaining(loading) < 4 THEN LoadFail(loading, IOError)
          ELSE [loading EXCEPT !.pos = @ + 4, !.pc = "count"]
    /\ UNCHANGED <<overflow_checks, playerVars, pbVars, kbd, calc, synthVars>>

\* let npatterns = ptable.iter().max().unwrap() + 1;  (u8 arithmetic)
LoadCountPatterns ==
    /\ loading.pc = "count"
    /\ loading' =
          IF loading.file.maxorder + 1 > 255 /\ overflow_checks
          THEN [loading EXCEPT !.outcome = "panic", !.failed = "count", !.pc = "done"]
          ELSE LET n == (loading.file.maxorder + 1) % 256
               IN  [loading EXCEPT !.npatterns = n, !.i = 0,
                                   !.pc = IF n > 0 THEN "pattern" ELSE "sample_data"]
    /\ UNCHANGED <<overflow_checks, playerVars, pbVars, kbd, calc, synthVars>>

\* One iteration of `for _ in 0..npatterns`: 64 rows of 4 read_u32 cells.
LoadPattern ==
    /\ loading.pc = "pattern"
    /\ loading' =
          IF Remaining(loading) < PatternBytes THEN LoadFail(loading, IOError)
          ELSE [loading EXCEPT !.pos = @ + PatternBytes, !.patterns = @ + 1,
                               !.i = IF loading.i + 1 < loading.npatterns THEN loading.i + 1 ELSE 0,
                               !.pc = IF loading.i + 1 < loading.npatterns
                                      THEN "pattern" ELSE "sample_data"]
    /\ UNCHANGED <<overflow_checks, playerVars, pbVars, kbd, calc, synthVars>>

\* One iteration of `for (i, sample) in samples.iter_mut().enumerate()`:
\* sample.data.len() = 2 * length calls of read_i8, then set_data.
LoadSampleData ==
    /\ loading.pc = "sample_data"
    /\ loading' =
          IF Remaining(loading) < 2 * FileWords(loading.i)
          THEN LoadFail(loading, SampleError(loading.i, IOError))
          ELSE [loading EXCEPT !.pos = @ + 2 * FileWords(loading.i), !.datas = @ + 1,
                               !.i = IF loading.i + 1 < NumSamples THEN loading.i + 1 ELSE 0,
                               !.pc = IF loading.i + 1 < NumSamples THEN "sample_data" ELSE "finish"]
    /\ UNCHANGED <<overflow_checks, playerVars, pbVars, kbd, calc, synthVars>>

\* Ok(Self { title, samples, patterns, program })
LoadFinish ==
    /\ loading.pc = "finish"
    /\ loading' = [loading EXCEPT !.outcome = "ok", !.pc = "done"]
    /\ UNCHANGED <<overflow_checks, playerVars, pbVars, kbd, calc, synthVars>>

\* Bytes of a complete file with `maxorder + 1` patterns.
FullSize(maxorder) ==
    TitleBytes + NumSamples * HeaderBytes + 2 + ProgramLen + 4
    + (maxorder + 1) * PatternBytes + 2 * (MaxWords + 1)

\* The files loaded: a one-pattern file cut at every byte offset (and
\* complete), files with a title or sample name that is not UTF-8, complete
\* or cut, and complete files with more patterns.
TruncatedFiles == {File(n, TRUE, 0 - 1, 0) : n \in 0..FullSize(0)}

CorruptedFiles ==
    {File(n, t, b, 0) : n \in {10, 30, 45, 100, 700, FullSize(0)},
                        t \in BOOLEAN, b \in {0 - 1, 0, 1, NumSamples - 1}}

LongFiles == {File(FullSize(m), TRUE, 0 - 1, m) : m \in {1, 2, 254, 255}}

\* The build profile matters to load only where max + 1 overflows.
LoadBuilds ==
    {<<f, TRUE>> : f \in TruncatedFiles \cup CorruptedFiles \cup LongFiles}
    \cup {<<File(FullSize(255), TRUE, 0 - 1, 255), FALSE>>,
          <<File(FullSize(0), TRUE, 0 - 1, 255), FALSE>>}

InitLoad ==
    /\ kbd = NoKeyboard
    /\ \E b \in LoadBuilds :
          /\ loading = LoadStart(b[1])
          /\ overflow_checks = b[2]
    /\ calc = CalcIdle
    /\ SynthIdle
    /\ PlayerIdle
    /\ PbIdle

NextLoad ==
    \/ LoadTitle
    \/ LoadHeader
    \/ LoadSongLength
    \/ LoadOrderTable
    \/ LoadSignature
    \/ LoadCountPatterns
    \/ LoadPattern
    \/ LoadSampleData
    \/ LoadFinish

SpecLoad == InitLoad /\ [][NextLoad]_vars

(***************************************************************************)
(* ADSR (sound.rs).  An envelope is [t, state, p]: the time spent in the   *)
(* current phase (f32 seconds), the state tag and its parameters.  The     *)
(* parameters are kept in eighths of a second (of the full level) and      *)
(* converted where the code reads them.  `env` holds the envelope with     *)
(* what its last call reported: op the call, ret the Option<f32> returned, *)
(* phase the branch of next that returned it, prev the report of the       *)
(* next call before it since the last trigger, ticks the number of next    *)
(* calls that advanced t since the last trigger and seen the phases        *)
(* reported since the last trigger_start.                                  *)
(***************************************************************************)
Eighths(k) == F32Div(F32Int(k), F32Int(8))

EnvTimes == {0, 1, 3, MaxEnv}

EnvLevels == {0, 4, 8}

ADSRParams == [a : EnvTimes, d : EnvTimes, s_level : EnvLevels, r : EnvTimes]

\* An envelope that reads the initial settings of the synthesizer window
\* whatever parameters it is given
ADSRNew_shared(p) ==
    [t |-> F32(0, 0), state |-> "Inactive",
     p |-> [a |-> 0, d |-> 2, s_level |-> 8, r |-> 1]]

ADSRNew(p) == [t |-> F32(0, 0), state |-> "Inactive", p |-> p]

\* (a - b) * v + b: the ramp run from b to a
lerp_reversed(a, b, v) ==
    IF F32Lt(b, a) THEN F32Add(F32Mul(F32Sub(a, b), v), b)
    ELSE F32Sub(b, F32Mul(F32Sub(b, a), v))

\* (b - a) * v + a, for 0 <= v <= 1; when b < a the product is negative
\* and its magnitude is taken off a.
lerp(a, b, v) ==
    IF F32Lt(a, b) THEN F32Add(F32Mul(F32Sub(b, a), v), a)
    ELSE F32Sub(a, F32Mul(F32Sub(a, b), v))

ADSR_trigger_start(e) == [e EXCEPT !.t = F32(0, 0), !.state = "AttackDecay"]

\* trigger_end that enters Release without resetting the elapsed time
ADSR_trigger_end_keeps_time(e) == [e EXCEPT !.state = "Release"]

ADSR_trigger_end(e) == [e EXCEPT !.t = F32(0, 0), !.state = "Release"]

Report(e, level, branch) == [e |-> e, ret |-> level, phase |-> branch]

\* next with a release that runs out without leaving the Release state
ADSR_next_stays_released(e, delta) ==
    LET t == e.t
        a == Eighths(e.p.a)
        d == Eighths(e.p.d)
        s_level == Eighths(e.p.s_level)
        r == Eighths(e.p.r)
        advanced == [e EXCEPT !.t = F32Add(t, delta)]
    IN  CASE e.state = "Inactive" -> Report(e, None, "inactive")
          [] e.state = "AttackDecay" ->
                IF F32Lt(t, a)
                THEN Report(advanced,
                            Some(lerp(F32Int(0), F32Int(1), F32Div(t, a))),
                            "attack")
                ELSE IF F32Lt(F32Sub(t, a), d)
                THEN Report(advanced,
                            Some(lerp(F32Int(1), s_level,
                                      F32Div(F32Sub(t, a), d))),
                            "decay")
                ELSE Report([advanced EXCEPT !.state = "Sustain"],
                            Some(s_level), "sustain")
          [] e.state = "Sustain" -> Report(e, Some(s_level), "sustain")
          [] e.state = "Release" ->
                IF ~F32Lt(t, r)
                THEN Report(e, None, "released")
                ELSE Report(advanced,
                            Some(lerp(s_level, F32Int(0), F32Div(t, r))),
                            "release")

ADSR_next(e, delta) ==
    LET t == e.t
        a == Eighths(e.p.a)
        d == Eighths(e.p.d)
        s_level == Eighths(e.p.s_level)
        r == Eighths(e.p.r)
        advanced == [e EXCEPT !.t = F32Add(t, delta)]
    IN  CASE e.state = "Inactive" -> Report(e, None, "inactive")
          [] e.state = "AttackDecay" ->
                IF F32Lt(t, a)
                THEN Report(advanced,
                            Some(lerp(F32Int(0), F32Int(1), F32Div(t, a))),
                            "attack")
                ELSE IF F32Lt(F32Sub(t, a), d)
                THEN Report(advanced,
                            Some(lerp(F32Int(1), s_level,
                                      F32Div(F32Sub(t, a), d))),
                            "decay")
                ELSE Report([advanced EXCEPT !.state = "Sustain"],
                            Some(s_level), "sustain")
          [] e.state = "Sustain" -> Report(e, Some(s_level), "sustain")
          [] e.state = "Release" ->
                IF ~F32Lt(t, r)
                THEN Report([advanced EXCEPT !.state = "Inactive"],
                            None, "released")
                ELSE Report(advanced,
                            Some(lerp(s_level, F32Int(0), F32Div(t, r))),
                            "release")

\* EnvelopedGenerator::next passes 1.0 / sample_rate
EnvDelta == F32Div(F32Int(1), F32Int(SampleRate))

(***************************************************************************)
(* Specification SpecEnv: one ADSR built from any parameter set, triggered *)
(* and advanced in any order.                                              *)
(***************************************************************************)
Env(e, call, level, branch, before, ticks, seen, ended) ==
    [e |-> e, op |-> call, ret |-> level, phase |-> branch, prev |-> before,
     ticks |-> ticks, seen |-> seen, ended |-> ended]

InitEnv ==
    /\ kbd = NoKeyboard
    /\ overflow_checks \in BOOLEAN
    /\ env \in {Env(ADSRNew(p), "new", None, "none", None, 0, {}, None) :
                    p \in ADSRParams}
    /\ poly = [op |-> "none"]
    /\ app = [op |-> "none"]
    /\ calc = CalcIdle
    /\ loading = NotLoading
    /\ PlayerIdle
    /\ PbIdle

EnvTriggerStart ==
    /\ env' = Env(ADSR_trigger_start(env.e), "trigger_start", None, "none",
                  None, 0, {}, None)
    /\ UNCHANGED <<overflow_checks, playerVars, pbVars, kbd, calc, loading, poly, app>>

EnvTriggerEnd ==
    /\ env' = Env(ADSR_trigger_end(env.e), "trigger_end", None, "none",
                  None, 0, env.seen,
                  IF env.op = "next"
                  THEN Some([phase |-> env.phase, ret |-> env.ret])
                  ELSE IF env.op = "trigger_end" THEN env.ended ELSE None)
    /\ UNCHANGED <<overflow_checks, playerVars, pbVars, kbd, calc, loading, poly, app>>

EnvNext ==
    LET res == ADSR_next(env.e, EnvDelta)
    IN  /\ env' = Env(res.e, "next", res.ret, res.phase,
                      IF env.op = "next"
                      THEN Some([phase |-> env.phase, ret |-> env.ret])
                      ELSE None,
                      IF env.e.state \in {"AttackDecay", "Release"}
                      THEN env.ticks + 1 ELSE env.ticks,
                      env.seen \cup {res.phase},
                      IF env.op = "trigger_end" THEN env.ended ELSE None)
        /\ UNCHANGED <<overflow_checks, playerVars, pbVars, kbd, calc, loading,
                       poly, app>>

NextEnv == EnvTriggerStart \/ EnvTriggerEnd \/ EnvNext

SpecEnv == InitEnv /\ [][NextEnv]_vars

(***************************************************************************)
(* PolyphonicGenerator (sound.rs).  A pool is [f, generators, scopes,      *)
(* scope_ix]: the two BTreeMaps are functions from NoteApprox keys, a      *)
(* voice is [note, wk, e] (its note, waveform kind and envelope;           *)
(* the oscillator under the envelope is not modelled, a voice's sample is  *)
(* stood for by the level of its envelope) and a visualization buffer is   *)
(* [len, written]: its length and the samples written into it since it was *)
(* allocated, by index; the other entries are still 0.0.  `poly` holds the *)
(* pool with op and arg, the last call and its note, replaced, the voice   *)
(* and buffer the last start found under its key, and mixed, the samples  *)
(* the last next summed, and started, the keys started so far.            *)
(***************************************************************************)
\* (value.freq() * 10.0) as u32
NoteApprox(n) == F32Floor(F32Mul(n, F32Int(10)))

\* A4, a note 0.05 Hz above it (the same key) and the A below.
Notes == {F32Int(440), F32Div(F32Int(44005), F32Int(100)), F32Int(220)}

MapRemove(map, k) == [x \in DOMAIN map \ {k} |-> map[x]]

MapInsert(map, k, v) ==
    [x \in DOMAIN map \cup {k} |-> IF x = k THEN v ELSE map[x]]

\* BTreeMap::entry(k).or_insert(v): an entry already there is kept
MapOrInsert(map, k, v) == IF k \in DOMAIN map THEN map ELSE MapInsert(map, k, v)

\* vec![0.0; 512]
ZeroBuffer == [len |-> ScopeLen, written |-> <<>>]

\* The envelope settings of the voices built.
SynthParams == [a |-> 0, d |-> 2, s_level |-> 8, r |-> 1]

\* A note factory: the closure main.rs hands to the pool, with the
\* waveform kind and the ADSR parameters it has captured by value.
Factory(wk, params) == [wk |-> wk, params |-> params]

\* The factory f called on a note: an oscillator of the captured waveform
\* kind under a new envelope of the captured parameters.
NoteGen(f, n) == [note |-> n, wk |-> f.wk, e |-> ADSRNew(f.params)]

VoiceTriggerStart(v) == [v EXCEPT !.e = ADSR_trigger_start(@)]

VoiceTriggerEnd(v) == [v EXCEPT !.e = ADSR_trigger_end(@)]

PolyNew(f) == [f |-> f, generators |-> <<>>, scopes |-> <<>>, scope_ix |-> 0]

\* The factory is replaced; the voices it has built are not touched.
set_notegen(g, f) == [g EXCEPT !.f = f]

\* start without the removal of the voice found under the key
start_layering(g, n) ==
    LET nap == NoteApprox(n)
        scoped == [g EXCEPT !.scopes = MapInsert(@, nap, ZeroBuffer)]
        pool == MapOrInsert(scoped.generators, nap, NoteGen(g.f, n))
    IN  [scoped EXCEPT
            !.generators = [pool EXCEPT ![nap] = VoiceTriggerStart(@)]]

start(g, n) ==
    LET nap == NoteApprox(n)
        cleared == IF nap \in DOMAIN g.generators
                   THEN [g EXCEPT !.generators = MapRemove(@, nap),
                                  !.scopes = MapRemove(@, nap)]
                   ELSE g
        scoped == [cleared EXCEPT !.scopes = MapInsert(@, nap, ZeroBuffer)]
        pool == MapOrInsert(scoped.generators, nap, NoteGen(g.f, n))
    IN  [scoped EXCEPT
            !.generators = [pool EXCEPT ![nap] = VoiceTriggerStart(@)]]

\* stop dropping the voice and leaving its visualization buffer
stop_dropping_voice(g, n) ==
    LET nap == NoteApprox(n)
    IN  IF nap \notin DOMAIN g.generators THEN g
        ELSE [g EXCEPT !.generators = MapRemove(@, nap)]

\* stop taking the voice out of the pool
stop_removing(g, n) ==
    LET nap == NoteApprox(n)
    IN  IF nap \notin DOMAIN g.generators THEN g
        ELSE [g EXCEPT !.generators = MapRemove(@, nap),
                       !.scopes = MapRemove(@, nap)]

stop(g, n) ==
    LET nap == NoteApprox(n)
    IN  IF nap \notin DOMAIN g.generators THEN g
        ELSE [g EXCEPT !.generators[nap] = VoiceTriggerEnd(@)]

\* next with a cursor that wraps one call late
PolyGeneratorNext_late_wrap(g) ==
    LET ix == IF g.scope_ix > ScopeLen THEN 0 ELSE g.scope_ix
        stepped == [k \in DOMAIN g.generators |->
                        ADSR_next(g.generators[k].e, EnvDelta)]
    IN  [g |-> [f |-> g.f,
                generators |-> [k \in DOMAIN g.generators |->
                                    [g.generators[k] EXCEPT !.e = stepped[k].e]],
                scopes |-> [k \in DOMAIN g.scopes |->
                                IF k \in DOMAIN g.generators
                                THEN [g.scopes[k] EXCEPT
                                         !.written = MapInsert(@, ix, stepped[k].ret)]
                                ELSE g.scopes[k]],
                scope_ix |-> ix + 1],
         mixed |-> [k \in DOMAIN g.generators |-> stepped[k].ret]]

\* PolyphonicGenerator::next: every voice advanced by a sample, the sample
\* written at the cursor of its buffer.
PolyGeneratorNext(g) ==
    LET ix == IF g.scope_ix >= ScopeLen THEN 0 ELSE g.scope_ix
        stepped == [k \in DOMAIN g.generators |->
                        ADSR_next(g.generators[k].e, EnvDelta)]
    IN  [g |-> [f |-> g.f,
                generators |-> [k \in DOMAIN g.generators |->
                                    [g.generators[k] EXCEPT !.e = stepped[k].e]],
                scopes |-> [k \in DOMAIN g.scopes |->
                                IF k \in DOMAIN g.generators
                                THEN [g.scopes[k] EXCEPT
                                         !.written = MapInsert(@, ix, stepped[k].ret)]
                                ELSE g.scopes[k]],
                scope_ix |-> ix + 1],
         mixed |-> [k \in DOMAIN g.generators |-> stepped[k].ret]]

(***************************************************************************)
(* Specification SpecPoly: a pool driven by key presses (start), key       *)
(* releases (stop) and the render callback (next).                         *)
(***************************************************************************)
\* The pool g after n calls of next with no voice in it (n <= ScopeLen):
\* nothing but the cursor has moved.
Idled(g, n) == [g EXCEPT !.scope_ix = n]

\* The cursor positions a run starts from: a new pool, and a pool whose
\* next call writes the last entry of the buffers.
PoolStarts == {0, ScopeLen - 1}

Poly(g, call, n, found, terms, keys) ==
    [g |-> g, op |-> call, arg |-> n, replaced |-> found, mixed |-> terms,
     started |-> keys]

InitPoly ==
    /\ kbd = NoKeyboard
    /\ overflow_checks \in BOOLEAN
    /\ poly \in {Poly(Idled(PolyNew(Factory("Sine", SynthParams)), n),
                        "new", None, None, <<>>, {}) : n \in PoolStarts}
    /\ env = [op |-> "none"]
    /\ app = [op |-> "none"]
    /\ calc = CalcIdle
    /\ loading = NotLoading
    /\ PlayerIdle
    /\ PbIdle

PolyStart(n) ==
    /\ poly' = Poly(start(poly.g, n), "start", Some(n),
                    IF NoteApprox(n) \in DOMAIN poly.g.generators
                    THEN Some([voice |-> poly.g.generators[NoteApprox(n)],
                               scope |-> poly.g.scopes[NoteApprox(n)]])
                    ELSE None,
                    <<>>, poly.started \cup {NoteApprox(n)})
    /\ UNCHANGED <<overflow_checks, playerVars, pbVars, kbd, calc, loading, env, app>>

PolyStop(n) ==
    /\ poly' = Poly(stop(poly.g, n), "stop", Some(n), None, <<>>,
                    poly.started)
    /\ UNCHANGED <<overflow_checks, playerVars, pbVars, kbd, calc, loading, env, app>>

PolyNext ==
    /\ poly.g.scope_ix < MaxNext \/ poly.g.scope_ix >= ScopeLen - 1
    /\ LET res == PolyGeneratorNext(poly.g)
       IN  poly' = Poly(res.g, "next", None, None, res.mixed, poly.started)
    /\ UNCHANGED <<overflow_checks, playerVars, pbVars, kbd, calc, loading, env, app>>

NextPoly ==
    \/ \E n \in Notes : PolyStart(n)
    \/ \E n \in Notes : PolyStop(n)
    \/ PolyNext

SpecPoly == InitPoly /\ [][NextPoly]_vars

(***************************************************************************)
(* The Application (main.rs): the event loop thread (on_event,             *)
(* imgui_draw) and the audio thread (the callback of audio_stream) share   *)
(* the AudioSink behind one Mutex.  `app` is                               *)
(*   keyboard     input::Keyboard: the keys held and the event queue       *)
(*   synthesizer  Synthesizer: waveform_kind and adsr_params               *)
(*   mutex        the Mutex: its owner ("free", "ui", "render") and        *)
(*                whether a thread panicked holding it (poisoned)          *)
(*   sink         AudioSink: poly and tracker (player, filepicker)         *)
(*   ui, render   where the two threads are                                *)
(*   last         the thread and the operation of the last step            *)
(* The live sound source is the synthesizer; the "Play" buttons of the     *)
(* sample windows, which switch it to a module sample, are not modelled.   *)
(***************************************************************************)
\* Slider settings tried besides the initial ones.
SlowParams == [a |-> 1, d |-> 1, s_level |-> 4, r |-> 3]

\* The settings the user leaves the synthesizer window with: the initial
\* ones, or a square wave with the slow envelope.  Edits touch nothing but
\* the synthesizer, so several of them between two key events count as one.
Settings == {[waveform_kind |-> "Sine", adsr_params |-> SynthParams],
             [waveform_kind |-> "Square", adsr_params |-> SlowParams]}

\* The keys pressed: H (A4) and A (the C above A3).
PianoKeys == {"H", "A"}

\* PianoKeyboard::translate
translate(kc) ==
    CASE kc = "H" -> Some(F32Int(440))
      [] kc = "A" -> Some(F32Div(F32Int(2616256), F32Int(10000)))
      [] OTHER -> None

KeyboardNew == [pressed |-> {}, queue |-> <<>>]

\* press enqueuing a Down event for a key that is held already
press_repeating(kb, c) ==
    [pressed |-> kb.pressed \cup {c},
     queue |-> Append(kb.queue, [kind |-> "Down", kc |-> c])]

press(kb, c) ==
    IF c \in kb.pressed THEN kb
    ELSE [pressed |-> kb.pressed \cup {c},
          queue |-> Append(kb.queue, [kind |-> "Down", kc |-> c])]

release(kb, c) ==
    IF c \notin kb.pressed THEN kb
    ELSE [pressed |-> kb.pressed \ {c},
          queue |-> Append(kb.queue, [kind |-> "Up", kc |-> c])]

\* Keyboard::drain: [kb, ret], the queue's front popped, or None
drain(kb) ==
    IF kb.queue = <<>> THEN [kb |-> kb, ret |-> None]
    ELSE [kb |-> [kb EXCEPT !.queue = Tail(@)], ret |-> Some(Head(kb.queue))]

(***************************************************************************)
(* Specification SpecKbd: one Keyboard under press, release and drain in   *)
(* any order.  `kbd` is [kb, op, key, pushed, drained, calls]: the         *)
(* keyboard, the last call and its key, the events enqueued and the events *)
(* drain has returned so far, in order, and the number of press and        *)
(* release calls made.                                                     *)
(***************************************************************************)
MaxKeyCalls == 5

Kbd(kb, call, c, pushed, drained, calls) ==
    [kb |-> kb, op |-> call, key |-> c, pushed |-> pushed, drained |-> drained,
     calls |-> calls]

\* The events a call has added to the queue q, now queue r.
Enqueued(q, r) == SubSeq(r, Len(q) + 1, Len(r))

InitKbd ==
    /\ kbd = Kbd(KeyboardNew, "new", "", <<>>, <<>>, 0)
    /\ overflow_checks \in BOOLEAN
    /\ AuxIdle
    /\ PlayerIdle
    /\ PbIdle

KbdPress(c) ==
    /\ kbd.calls < MaxKeyCalls
    /\ LET kb == press(kbd.kb, c)
       IN  kbd' = Kbd(kb, "press", c,
                      kbd.pushed \o Enqueued(kbd.kb.queue, kb.queue),
                      kbd.drained, kbd.calls + 1)
    /\ UNCHANGED <<overflow_checks, playerVars, pbVars, auxVars>>

KbdRelease(c) ==
    /\ kbd.calls < MaxKeyCalls
    /\ LET kb == release(kbd.kb, c)
       IN  kbd' = Kbd(kb, "release", c,
                      kbd.pushed \o Enqueued(kbd.kb.queue, kb.queue),
                      kbd.drained, kbd.calls + 1)
    /\ UNCHANGED <<overflow_checks, playerVars, pbVars, auxVars>>

KbdDrain ==
    /\ LET res == drain(kbd.kb)
       IN  kbd' = Kbd(res.kb, "drain", "", kbd.pushed,
                      IF IsSome(res.ret) THEN Append(kbd.drained, Unwrap(res.ret))
                      ELSE kbd.drained,
                      kbd.calls)
    /\ UNCHANGED <<overflow_checks, playerVars, pbVars, auxVars>>

NextKbd ==
    \/ \E c \in PianoKeys : KbdPress(c)
    \/ \E c \in PianoKeys : KbdRelease(c)
    \/ KbdDrain

SpecKbd == InitKbd /\ [][NextKbd]_vars

SynthesizerNew == [waveform_kind |-> "Sine", adsr_params |-> SynthParams]

\* The module of the file picked in the file picker.
AppModule == Mod("zero", 64, NoteSample1, Empty)

MutexNew == [owner |-> "free", poisoned |-> FALSE]

\* lock() returns at once whatever the owner
MutexFree_always(m) == TRUE

\* lock() returns only when no thread holds the mutex
MutexFree(m) == m.owner = "free"

MutexLock(m, who) == [m EXCEPT !.owner = who]

\* The guard is dropped.
MutexUnlock(m) == [m EXCEPT !.owner = "free"]

\* The guard is dropped by a panic unwinding the owner's stack.
MutexPoison(m) == [owner |-> "free", poisoned |-> TRUE]

AppNew ==
    [keyboard |-> KeyboardNew,
     synthesizer |-> SynthesizerNew,
     mutex |-> MutexNew,
     sink |-> [poly |-> PolyNew(Factory("Sine", SynthParams)),
               tracker |-> [player |-> None, filepicker |-> FALSE]],
     ui |-> "idle",
     render |-> [pc |-> "idle", frames |-> 0],
     last |-> [who |-> "none", op |-> "new", key |-> 0]]

Did(who, what, k) == [who |-> who, op |-> what, key |-> k]

AppOnly == UNCHANGED <<overflow_checks, playerVars, pbVars, kbd, calc, loading, env, poly>>

InitApp ==
    /\ kbd = NoKeyboard
    /\ app = AppNew
    /\ overflow_checks = TRUE
    /\ env = [op |-> "none"]
    /\ poly = [op |-> "none"]
    /\ calc = CalcIdle
    /\ loading = NotLoading
    /\ PlayerIdle
    /\ PbIdle

\* on_event, KeyboardInput: the key is recorded, then
\* self.audio_sink.lock().unwrap()
UiKeyboardInput(kc, pressed) ==
    /\ app.ui = "idle"
    /\ \/ /\ app.mutex.poisoned
          /\ app' = [app EXCEPT
                        !.keyboard = IF pressed THEN press(@, kc) ELSE release(@, kc),
                        !.ui = "panicked",
                        !.last = Did("ui", "panic", 0)]
       \/ /\ ~app.mutex.poisoned
          /\ MutexFree(app.mutex)
          /\ app' = [app EXCEPT
                        !.keyboard = IF pressed THEN press(@, kc) ELSE release(@, kc),
                        !.mutex = MutexLock(@, "ui"),
                        !.ui = "kbd_notegen",
                        !.last = Did("ui", "lock", 0)]
    /\ AppOnly

\* on_event, LiveSoundSource::Synthesizer: the factory is rebuilt from
\* clones of the synthesizer's settings.
UiSetNotegen ==
    /\ app.ui = "kbd_notegen"
    /\ app' = [app EXCEPT
                  !.sink.poly = set_notegen(@, Factory(app.synthesizer.waveform_kind,
                                                       app.synthesizer.adsr_params)),
                  !.ui = "kbd_drain",
                  !.last = Did("ui", "set_notegen", 0)]
    /\ AppOnly

\* on_event, one turn of the drain loop
UiDrain ==
    /\ app.ui = "kbd_drain"
    /\ app.keyboard.queue /= <<>>
    /\ LET ev == Head(app.keyboard.queue)
           n == translate(ev.kc)
       IN  app' = [app EXCEPT
                      !.keyboard.queue = Tail(@),
                      !.sink.poly = IF ~IsSome(n) THEN @
                                    ELSE IF ev.kind = "Down" THEN start(@, Unwrap(n))
                                    ELSE stop(@, Unwrap(n)),
                      !.last = IF ~IsSome(n) THEN Did("ui", "drain", 0)
                               ELSE Did("ui", IF ev.kind = "Down" THEN "start" ELSE "stop",
                                        NoteApprox(Unwrap(n)))]
    /\ AppOnly

\* on_event: the queue is empty, the loop breaks and the guard is dropped.
UiKbdUnlock ==
    /\ app.ui = "kbd_drain"
    /\ app.keyboard.queue = <<>>
    /\ app' = [app EXCEPT !.mutex = MutexUnlock(@), !.ui = "idle",
                          !.last = Did("ui", "unlock", 0)]
    /\ AppOnly

\* imgui_draw: self.audio_sink.lock().unwrap(), first thing
UiDrawLock ==
    /\ app.ui = "idle"
    /\ \/ /\ app.mutex.poisoned
          /\ app' = [app EXCEPT !.ui = "panicked",
                                !.last = Did("ui", "panic", 0)]
       \/ /\ ~app.mutex.poisoned
          /\ MutexFree(app.mutex)
          /\ app' = [app EXCEPT !.mutex = MutexLock(@, "ui"),
                                !.ui = "draw",
                                !.last = Did("ui", "lock", 0)]
    /\ AppOnly

\* Synthesizer::imgui_draw: a radio button or a slider is moved; imgui_draw
\* then returns and the guard is dropped.
UiEditSynthesizer ==
    /\ app.ui = "draw"
    /\ \E set \in Settings :
          /\ set /= app.synthesizer
          /\ app' = [app EXCEPT
                        !.synthesizer = set,
                        !.mutex = MutexUnlock(@),
                        !.ui = "idle",
                        !.last = Did("ui", "edit", 0)]
    /\ AppOnly

\* Tracker::imgui_draw_main_window: Close, Load..., Pause, Stop or Play
UiTrackerButton ==
    /\ app.ui = "draw"
    /\ LET t == app.sink.tracker
           has == IsSome(t.player)
           p == Unwrap(t.player)
       IN  \E b \in {"Close", "Load", "Pause", "Stop", "Play"} :
              /\ CASE b = "Close" -> has
                   [] b = "Load" -> ~has /\ ~t.filepicker
                   [] b = "Pause" -> has /\ p.playing
                   [] b = "Stop" -> has /\ p.playing
                   [] b = "Play" -> has /\ ~p.playing
              /\ app' = [app EXCEPT
                    !.sink.tracker =
                        CASE b = "Close" -> [@ EXCEPT !.player = None]
                          [] b = "Load" -> [@ EXCEPT !.filepicker = TRUE]
                          [] b = "Pause" ->
                                [@ EXCEPT !.player = Some([p EXCEPT !.playing = FALSE])]
                          [] b = "Stop" ->
                                [@ EXCEPT !.player =
                                    Some([p EXCEPT !.playing = FALSE, !.row = 0,
                                                   !.program = 0, !.pattern = 0])]
                          [] b = "Play" ->
                                [@ EXCEPT !.player = Some([p EXCEPT !.playing = TRUE])],
                    !.ui = "draw_end",
                    !.last = Did("ui", b, 0)]
    /\ AppOnly

\* Tracker::imgui_draw_main_window: the file picker returns a path; the
\* picker is closed and Module::load starts.
UiFilePicked ==
    /\ app.ui = "draw"
    /\ app.sink.tracker.filepicker
    /\ app' = [app EXCEPT !.sink.tracker.filepicker = FALSE,
                          !.ui = "loading",
                          !.last = Did("ui", "pick", 0)]
    /\ AppOnly

\* Module::load(&path).unwrap() returns a Module, handed to Player::new, or
\* fails and the unwrap panics.
UiLoad ==
    /\ app.ui = "loading"
    /\ \/ app' = [app EXCEPT
                     !.sink.tracker.player = Some(PlayerNew(AppModule, overflow_checks)),
                     !.ui = "draw_end",
                     !.last = Did("ui", "load", 0)]
       \/ app' = [app EXCEPT !.mutex = MutexPoison(@),
                             !.ui = "panicked",
                             !.last = Did("ui", "panic", 0)]
    /\ AppOnly

\* imgui_draw returns: the guard is dropped.
UiDrawUnlock ==
    /\ app.ui \in {"draw", "draw_end"}
    /\ app' = [app EXCEPT !.mutex = MutexUnlock(@), !.ui = "idle",
                          !.last = Did("ui", "unlock", 0)]
    /\ AppOnly

\* The audio device asks for a buffer of BatchFrames frames.
RenderCallback ==
    /\ app.render.pc = "idle"
    /\ app.sink.poly.scope_ix + BatchFrames <= MaxNext
    /\ app' = [app EXCEPT !.render.pc = "wait",
                          !.last = Did("render", "callback", 0)]
    /\ AppOnly

\* audio_sink.lock().unwrap() in the callback
RenderLock ==
    /\ app.render.pc = "wait"
    /\ \/ /\ app.mutex.poisoned
          /\ app' = [app EXCEPT !.render.pc = "panicked",
                                !.last = Did("render", "panic", 0)]
       \/ /\ ~app.mutex.poisoned
          /\ MutexFree(app.mutex)
          /\ app' = [app EXCEPT !.mutex = MutexLock(@, "render"),
                                !.render = [pc |-> "fill", frames |-> BatchFrames],
                                !.last = Did("render", "lock", 0)]
    /\ AppOnly

\* fill_sound_buffer, one frame: poly.next() and, with a player, p.next()
RenderFrame ==
    /\ app.render.pc = "fill"
    /\ app.render.frames > 0
    /\ LET t == app.sink.tracker
           r == PlayerNext(Unwrap(t.player), overflow_checks)
           panics == IsSome(t.player) /\ Panicked(r.p)
       IN  app' = [app EXCEPT
                      !.sink.poly = PolyGeneratorNext(@).g,
                      !.sink.tracker.player = IF IsSome(@) THEN Some(r.p) ELSE @,
                      !.render = IF panics THEN [pc |-> "panicked", frames |-> 0]
                                 ELSE [@ EXCEPT !.frames = @ - 1],
                      !.mutex = IF panics THEN MutexPoison(@) ELSE @,
                      !.last = Did("render", "frame", 0)]
    /\ AppOnly

\* The callback returns: the guard is dropped.
RenderUnlock ==
    /\ app.render.pc = "fill"
    /\ app.render.frames = 0
    /\ app' = [app EXCEPT !.mutex = MutexUnlock(@),
                          !.render = [pc |-> "idle", frames |-> 0],
                          !.last = Did("render", "unlock", 0)]
    /\ AppOnly

NextApp ==
    \/ \E kc \in PianoKeys, pressed \in BOOLEAN : UiKeyboardInput(kc, pressed)
    \/ UiSetNotegen
    \/ UiDrain
    \/ UiKbdUnlock
    \/ UiDrawLock
    \/ UiEditSynthesizer
    \/ UiTrackerButton
    \/ UiFilePicked
    \/ UiLoad
    \/ UiDrawUnlock
    \/ RenderCallback
    \/ RenderLock
    \/ RenderFrame
    \/ RenderUnlock

SpecApp == InitApp /\ [][NextApp]_vars

(***************************************************************************)
(* Specification SpecTime: a Player at the sample rate of main.rs on a     *)
(* module without notes, started with Play and driven by the render        *)
(* callback; `clock` counts the calls of Player::next and the tick events  *)
(* between row loads.                                                      *)
(***************************************************************************)
\* A module of one pattern whose rows carry cell a in channel 1 and
\* nothing else
QuietModule(a) == Mod("quiet", 64, a, Empty)

\* since_load, since_tick: the calls of next() since the last row load and
\* since the last tick event; ticks: the tick events since the last row
\* load; loads: the row loads so far, the one of Player::new not counted;
\* load_gap, tick_gap: the calls from the row load, or tick event, before
\* the last one to the last one; row_ticks: the tick events between the
\* last two row loads.
ClockNew ==
    [op |-> "new", since_load |-> 0, since_tick |-> 0, ticks |-> 0, loads |-> 0,
     ticked |-> FALSE, load_gap |-> None, tick_gap |-> None, row_ticks |-> None]

InitTime ==
    /\ kbd = NoKeyboard
    /\ player = PlayerNewAt(QuietModule(SlideUp2), MainSampleRate, TRUE)
    /\ overflow_checks = TRUE
    /\ ret = <<>>
    /\ op = "new"
    /\ ticks_since_load = 0
    /\ clock = ClockNew
    /\ PbIdle
    /\ AuxIdle

\* The "Play" button
TimePlay ==
    /\ ~player.playing
    /\ player' = [player EXCEPT !.playing = TRUE]
    /\ op' = "play"
    /\ clock' = [clock EXCEPT !.op = "play"]
    /\ UNCHANGED <<overflow_checks, ret, ticks_since_load, pbVars, kbd, auxVars>>

\* fill_sound_buffer: one frame, p.next(), while playing
TimeNext ==
    /\ player.playing
    /\ ~Panicked(player)
    /\ clock.loads < MaxRows
    /\ LET r == PlayerNext(player, overflow_checks)
           tick_event == player.tick_left = 0
           row_load == player.division_left = 0
       IN  /\ player' = r.p
           /\ ret' = r.ret
           /\ ticks_since_load' = IF row_load THEN 0
                                  ELSE IF tick_event THEN ticks_since_load + 1
                                  ELSE ticks_since_load
           /\ clock' =
                 [op |-> IF row_load THEN "load" ELSE IF tick_event THEN "tick" ELSE "next",
                  since_load |-> IF row_load THEN 0 ELSE clock.since_load + 1,
                  since_tick |-> IF tick_event THEN 0 ELSE clock.since_tick + 1,
                  ticks |-> IF row_load THEN 0
                            ELSE IF tick_event THEN clock.ticks + 1 ELSE clock.ticks,
                  loads |-> IF row_load THEN clock.loads + 1 ELSE clock.loads,
                  ticked |-> clock.ticked \/ tick_event,
                  load_gap |-> IF row_load THEN Some(clock.since_load + 1)
                               ELSE clock.load_gap,
                  tick_gap |-> IF tick_event /\ clock.ticked
                               THEN Some(clock.since_tick + 1) ELSE clock.tick_gap,
                  row_ticks |-> IF row_load
                                THEN Some(clock.ticks + IF tick_event THEN 1 ELSE 0)
                                ELSE clock.row_ticks]
    /\ op' = "next"
    /\ UNCHANGED <<overflow_checks, pbVars, kbd, auxVars>>

NextTime == TimePlay \/ TimeNext

SpecTime == InitTime /\ [][NextTime]_vars

(***************************************************************************)
(* Claims                                                                  *)
(***************************************************************************)
Channels == 0..(NumChannels - 1)
HasVoice(p, i) == IsSome(Chan(p, i).generator)
Voice(p, i) == Unwrap(Chan(p, i).generator)

\* C1: in every reachable Player state the current row index is < 64, so a
\* row load never indexes past the 64 rows of a pattern (also for the row
\* reached through a PatternBreak, decoded as b * 10 + c).
C1_RowBelow64 ==
    /\ player.row < NumRows
    /\ player.panic /= "rows[row]"

\* C2: SamplePlayback::next only ever calls get(i) on its signal with
\* i < signal.length(), for looped and non-looped playbacks alike.
C2_GetWithinLength ==
    IsSome(pb_got) => Unwrap(pb_got) < SignalLength(pb.signal)

\* C3: every sample number a row load uses to build a voice refers to an
\* existing Sample of the module: 1 <= n <= 31, looked up as samples[n-1].
C3_SampleNumberExists ==
    /\ player.panic /= "samples[sample-1]"
    /\ \A i \in Channels :
          LET c == Cell(player, i)
          IN  ((period(c) /= 0 \/ sample_number(c) /= 0)
                  /\ CellHasNote(player, i)
                  /\ EffectiveSample(player, i) /= 0)
              => EffectiveSample(player, i) \in 1..NumSamples

\* C4: in every reachable Player state every channel voice's volume is
\* within [0, 64].
C4_VolumeWithin64 ==
    \A i \in Channels :
        HasVoice(player, i) => Voice(player, i).volume \in 0..MaxVolume

\* C5: in every reachable Player state the pattern being played equals
\* program[program index], and the program index is below the length of the
\* program table.
C5_PatternIsProgramEntry ==
    /\ player.program < ModProgramLen(player.module)
    /\ player.pattern = ModProgramAt(player.module, player.program)

\* The program index after an advance to the next pattern.
NextProgram(p) == IF p.program + 1 >= ModProgramLen(p.module) THEN 0 ELSE p.program + 1

\* A break left pending in p was armed by a cell of p's current row.
BreakIsOfRow(p) ==
    IsSome(p.incoming_break) =>
        \E i \in Channels : effect(Cell(p, i)) = Eff("PatternBreak", Unwrap(p.incoming_break), 0)

\* This step is a call of Player::next that crosses a division boundary.
DivisionStep ==
    /\ op' = "next"
    /\ player.playing
    /\ ~Panicked(player)
    /\ player.division_left = 0

RowLoaded(p) == p.panic /= "rows[row]"

\* C6: at each division boundary, if the row just played armed
\* PatternBreak{d}, row d of the pattern at the next program index is loaded
\* and the pending break is consumed; otherwise from row r < 63 row r + 1 of
\* the same pattern is loaded with the program index unchanged, and from row
\* 63 row 0 of the pattern at the next program index; the program index
\* wraps to 0 past the end of the program table.
C6_Advance ==
    DivisionStep =>
        IF IsSome(player.incoming_break)
        THEN /\ player'.row = Unwrap(player.incoming_break)
             /\ player'.program = NextProgram(player)
             /\ player'.pattern = ModProgramAt(player.module, NextProgram(player))
             /\ RowLoaded(player')
             /\ BreakIsOfRow(player')
        ELSE IF player.row < 63
        THEN /\ player'.row = player.row + 1
             /\ player'.program = player.program
             /\ player'.pattern = player.pattern
             /\ RowLoaded(player')
             /\ BreakIsOfRow(player')
        ELSE /\ player'.row = 0
             /\ player'.program = NextProgram(player)
             /\ player'.pattern = ModProgramAt(player.module, NextProgram(player))
             /\ RowLoaded(player')
             /\ BreakIsOfRow(player')

C6_NextRow == [][C6_Advance]_vars

\* The players on which _load_row is about to run from the current state:
\* the one Player::new has built, or the one _next_division has advanced.
LoadInputs ==
    (IF op = "new" THEN {BeforeFirstLoad(player.module)} ELSE {})
    \cup (IF player.playing /\ ~Panicked(player) /\ player.division_left = 0
          THEN {AdvanceRow(TickPhase(player))} ELSE {})

\* The cell of channel i asks for a trigger and both an effective note and
\* an effective sample are available.
Retriggers(p, i) ==
    LET c == Cell(p, i)
    IN  /\ period(c) /= 0 \/ sample_number(c) /= 0
        /\ period(c) /= 0 \/ IsSome(Chan(p, i).last_note)
        /\ sample_number(c) /= 0 \/ IsSome(Chan(p, i).last_sample)

C7_LoadOf(pre, post) ==
    \A i \in Channels :
        IF Retriggers(pre, i)
        THEN /\ HasVoice(post, i)
             /\ Voice(post, i).state = First(0)
             /\ Chan(post, i).last_sample = Some(EffectiveSample(pre, i))
             /\ Chan(post, i).last_note = Some(EffectiveNote(pre, i))
        ELSE /\ Chan(post, i).generator = Chan(pre, i).generator
             /\ Chan(post, i).last_sample = Chan(pre, i).last_sample
             /\ Chan(post, i).last_note = Chan(pre, i).last_note

\* C7: on a row load a channel is retriggered (a fresh playback in state
\* First(0) replaces the old voice, and the sample and note are remembered)
\* if and only if its cell has a period or a sample number and both an
\* effective note and an effective sample are available; in every other case
\* the channel's voice, remembered sample and remembered note are left
\* unchanged by the load.
C7_Retrigger ==
    \A pre \in LoadInputs : C7_LoadOf(pre, _load_row(pre, overflow_checks))

\* The next call of Player::next is a tick event.
TickEventNext ==
    /\ player.playing
    /\ ~Panicked(player)
    /\ player.tick_left = 0

SlideApplies(i) ==
    /\ ticks_since_load /= 0
    /\ IsSome(Chan(player, i).volume_slide)
    /\ HasVoice(player, i)

\* C8: on every tick event except the first one after a row load, each
\* channel that has an armed slide delta and a voice gets
\* volume := clamp(volume + delta, 0, 64); on the first tick event after a
\* row load, and for channels without an armed slide or without a voice, the
\* volume is unchanged.
C8_TickSlide ==
    TickEventNext =>
        \A i \in Channels :
            Chan(_next_tick(player), i).generator =
                IF SlideApplies(i)
                THEN Some([Voice(player, i) EXCEPT
                             !.volume = ClampVolume(@ + Unwrap(Chan(player, i).volume_slide))])
                ELSE Chan(player, i).generator

\* A tick event after the row's entry tick, on a channel whose volume is
\* within [0, 64] and whose upward slide is clamped at 64.
C8_Witness ==
    /\ TickEventNext
    /\ \E i \in Channels :
          /\ SlideApplies(i)
          /\ Voice(player, i).volume \in 0..MaxVolume
          /\ Unwrap(Chan(player, i).volume_slide) > 0
          /\ Voice(player, i).volume + Unwrap(Chan(player, i).volume_slide) > MaxVolume
          /\ Voice(_next_tick(player), i).volume = MaxVolume

C9_PausedStep ==
    (op' = "next" /\ ~player.playing) => (player' = player /\ ret' = <<>>)

\* C9: while the playing flag is false, Player::next returns 0 and leaves the
\* whole sequencing state unchanged (program, pattern, row, tick counter,
\* countdowns, pending break, tempo, every channel's voice cursor and
\* volume), so that resuming continues as if the calls had not happened.
C9_PausedNext == [][C9_PausedStep]_vars

\* Player::next has been called on a player paused in the middle of a song,
\* with a voice sounding and the countdowns part-way.
C9_Witness ==
    /\ op = "next"
    /\ ~player.playing
    /\ ret = <<>>
    /\ player.program > 0
    /\ player.division_left > 0
    /\ \E i \in Channels : HasVoice(player, i) /\ Voice(player, i).state.tag = "Repeating"

\* C10: trigger_start moves the playback from any state to First(0);
\* trigger_end moves it from any state to Stopped at once; in Stopped, next()
\* returns silence and leaves the state Stopped.
C10_Triggers ==
    /\ pb_op = "trigger_start" => pb.state = First(0)
    /\ pb_op = "trigger_end" => pb.state = Stopped
    /\ (pb_op = "next" /\ pb_prev = Stopped) =>
          (pb.state = Stopped /\ pb_ret = Silence /\ pb_got = None)

\* trigger_end has cut a playback that was inside its loop.
C10_Witness ==
    /\ pb_op = "trigger_end"
    /\ pb_prev.tag = "Repeating"
    /\ pb_prev.ix > 0
    /\ pb.state = Stopped

\* C11: for every sample header and every note, the loop window of the
\* playback built by Sample::play lies inside the resampled signal:
\* loop_start + loop_length <= resampled length, so the bound used by next()
\* never exceeds the signal's length.
C11_LoopWithinSignal ==
    /\ IsSome(pb.repeat) =>
          Unwrap(pb.repeat)[1] + Unwrap(pb.repeat)[2] <= SignalLength(pb.signal)
    /\ _length(pb) <= SignalLength(pb.signal)

Applied(fn) == calc.fn = fn /\ IsSome(calc.out)
Result == Unwrap(calc.out)

TempoOf(bpm, tpd, sr) == Applied("tempo") /\ calc.arg = <<bpm, tpd, sr>>

\* C12 as stated: given bpm = 125, tpd = 6 and sampleRate = 44100, the
\* division length (60 / (24 * bpm / tpd)) * sampleRate equals 10584 samples
\* and the tick length (division length / tpd) equals 1764 samples.
C12_TempoAsStated ==
    TempoOf(125, 6, MainSampleRate) => Result = <<10584, 1764>>

\* C12, amended: given bpm = 125, tpd = 6 and sampleRate = 44100, the
\* division length (60 / (24 * bpm / tpd)) * sampleRate equals 5292 samples
\* and the tick length (division length / tpd) equals 882 samples.
C12_Tempo ==
    TempoOf(125, 6, MainSampleRate) => Result = <<5292, 882>>

\* The two lengths have been computed at bpm 125, tpd 6, 44100 Hz.
C12_Witness ==
    /\ TempoOf(125, 6, MainSampleRate)
    /\ Result = <<DivisionLength(125, 6, MainSampleRate), TickLength(125, 6, MainSampleRate)>>
    /\ Result[1] = 6 * Result[2]

\* The layout of the file format, by byte offset (independently of the
\* order in which load reads): where each section begins.
HeadersAt == TitleBytes
SongLengthAt == HeadersAt + NumSamples * HeaderBytes
OrderTableAt == SongLengthAt + 2
SignatureAt == OrderTableAt + ProgramLen
PatternsAt == SignatureAt + 4
SampleDataAt(f) == PatternsAt + (f.maxorder + 1) * PatternBytes

RECURSIVE PcmAt(_, _)
PcmAt(f, i) == IF i = 0 THEN SampleDataAt(f) ELSE PcmAt(f, i - 1) + 2 * FileWords(i - 1)

\* What a failure has to name for a file whose data runs out at offset n:
\* <<section, sample index or -1>>.
SectionAt(f, n) ==
    IF n < HeadersAt THEN <<"title", 0 - 1>>
    ELSE IF n < SongLengthAt THEN <<"sample", (n - HeadersAt) \div HeaderBytes>>
    ELSE IF n < OrderTableAt THEN <<"song length", 0 - 1>>
    ELSE IF n < SignatureAt THEN <<"order table", 0 - 1>>
    ELSE IF n < PatternsAt THEN <<"signature", 0 - 1>>
    ELSE IF n < SampleDataAt(f) THEN <<"patterns", 0 - 1>>
    ELSE <<"sample", CHOOSE i \in 0..(NumSamples - 1) :
                        PcmAt(f, i) <= n /\ n < PcmAt(f, i) + 2 * FileWords(i)>>

\* What an Error value names: a SampleError its sample, the others nothing.
ErrorNames(e) ==
    IF e.kind = "SampleError" THEN <<"sample", e.sample>> ELSE <<"nothing", 0 - 1>>

WellFormed(f) == f.title_ok /\ f.bad_name = 0 - 1
Truncated(f) == f.size < PcmAt(f, NumSamples)
LoadDone == loading.pc = "done"

\* C13: loading a module file truncated at any byte offset (inside the
\* title, a sample header, the order table, the signature, the pattern data
\* or a sample's PCM data) returns a failure value that identifies the
\* specific section or sample where the data ran out, and never returns a
\* Module.
C13_TruncatedIdentified ==
    (LoadDone /\ WellFormed(loading.file) /\ Truncated(loading.file)) =>
        /\ loading.outcome = "err"
        /\ ErrorNames(loading.err) = SectionAt(loading.file, loading.file.size)

\* Header i of file f cannot be parsed, and why.
HeaderCause(f, i) ==
    IF f.size < HeadersAt + i * HeaderBytes + NameBytes THEN Some(IOError)
    ELSE IF f.bad_name = i THEN Some(ParseError("invalid name"))
    ELSE IF f.size < HeadersAt + (i + 1) * HeaderBytes THEN Some(IOError)
    ELSE None

TitleFine(f) == f.size >= TitleBytes /\ f.title_ok

C14_State ==
    /\ (loading.outcome = "err" /\ loading.failed = "header") =>
          LET f == loading.file
              i == loading.err.sample
          IN  /\ loading.err.kind = "SampleError"
              /\ i \in 0..(NumSamples - 1)
              /\ TitleFine(f)
              /\ \A j \in 0..(i - 1) : HeaderCause(f, j) = None
              /\ IsSome(HeaderCause(f, i))
              /\ loading.err = [kind |-> "SampleError", sample |-> i,
                                inner |-> Unwrap(HeaderCause(f, i)).kind,
                                what |-> Unwrap(HeaderCause(f, i)).what]
              /\ loading.headers = i
              /\ loading.patterns = 0 /\ loading.datas = 0
    /\ (loading.outcome = "err" /\ loading.failed = "sample_data") =>
          LET f == loading.file
              i == loading.err.sample
          IN  /\ loading.err = [kind |-> "SampleError", sample |-> i,
                                inner |-> "IOError", what |-> "none"]
              /\ i \in 0..(NumSamples - 1)
              /\ loading.headers = NumSamples
              /\ loading.pos + 2 * FileWords(i) > f.size
              /\ loading.pos - PatternsAt - loading.patterns * PatternBytes
                    = PcmAt(f, i) - SampleDataAt(f)
              /\ loading.datas = i
    /\ loading.outcome = "err" => LoadDone

C14_Step == loading.outcome /= "running" => loading' = loading

\* C14: Module::load stops at the first failing step and returns only that
\* failure: a failure while parsing sample header i, or while reading the
\* PCM bytes of sample i, is returned as a per-sample error tagged with
\* index i (0-based, declared order) wrapping the inner cause, and no later
\* section is read after a failure.
C14_FirstFailure == [](C14_State) /\ [][C14_Step]_vars

\* The name of the last sample header is not UTF-8 in an otherwise complete
\* file: load has failed there, after 30 good headers.
C14_Witness ==
    /\ LoadDone
    /\ loading.outcome = "err"
    /\ loading.failed = "header"
    /\ loading.headers = NumSamples - 1
    /\ loading.err = SampleError(NumSamples - 1, ParseError("invalid name"))

\* C15: for every 128-byte order table (entries 0..255), the number of
\* patterns decoded equals max(order table) + 1, each pattern having exactly
\* 64 rows of exactly 4 cells; in particular the count is computed correctly
\* when the maximum entry is 255.
C15_PatternCount ==
    (LoadDone /\ WellFormed(loading.file) /\ ~Truncated(loading.file)) =>
        /\ loading.outcome = "ok"
        /\ loading.npatterns = loading.file.maxorder + 1
        /\ loading.patterns = loading.file.maxorder + 1
        /\ loading.pos = PcmAt(loading.file, NumSamples)

\* C16: Effect decoding is a total function of the 12-bit value with
\* nibbles a, b, c: a = 0xA gives VolumeSlide{up = b, down = c}; a = 0xC
\* gives SetVolume{b * 16 + c}; a = 0xD gives PatternBreak{b * 10 + c};
\* a = 0xE with b = 0xA gives FineVolumeSlideUp{c}, with b = 0xB
\* FineVolumeSlideDown{c}; a = 0xF gives, with z = b * 16 + c and z replaced
\* by 1 when 0, SetTicksPerDivision{z} if z <= 32 and SetBeatsPerMinute{z}
\* otherwise; every other value gives Unknown.
C16_EffectDecoding ==
    Applied("effect") =>
        LET v == calc.arg[1]
            a == v \div 256
            b == (v \div 16) % 16
            c == v % 16
            z == IF b * 16 + c = 0 THEN 1 ELSE b * 16 + c
            e == Result
        IN  /\ a = 10 => e = [kind |-> "VolumeSlide", x |-> b, y |-> c]
            /\ a = 12 => e = [kind |-> "SetVolume", x |-> b * 16 + c, y |-> 0]
            /\ a = 13 => e = [kind |-> "PatternBreak", x |-> b * 10 + c, y |-> 0]
            /\ (a = 14 /\ b = 10) => e = [kind |-> "FineVolumeSlideUp", x |-> c, y |-> 0]
            /\ (a = 14 /\ b = 11) => e = [kind |-> "FineVolumeSlideDown", x |-> c, y |-> 0]
            /\ (a = 15 /\ z <= 32) => e = [kind |-> "SetTicksPerDivision", x |-> z, y |-> 0]
            /\ (a = 15 /\ z > 32) => e = [kind |-> "SetBeatsPerMinute", x |-> z, y |-> 0]
            /\ (a \notin {10, 12, 13, 14, 15} \/ (a = 14 /\ b \notin {10, 11})) =>
                  e = [kind |-> "Unknown", x |-> 0, y |-> 0]

\* Effect D99 has been decoded as a break to row 9 * 10 + 9 = 99.
C16_Witness ==
    /\ Applied("effect")
    /\ calc.arg = <<3481>>
    /\ Result = [kind |-> "PatternBreak", x |-> 99, y |-> 0]

\* x / d truncated toward zero, d > 0
TruncDiv(x, d) == IF x >= 0 THEN x \div d ELSE 0 - ((0 - x) \div d)

\* The value the claim gives for index i: u = i * (S - 1) / (T - 1),
\* u0 = floor(u), f = u - u0, in exact arithmetic.
ClaimedSample(src, T, i) ==
    LET S == Len(src)
        u0 == (i * (S - 1)) \div (T - 1)
        r == (i * (S - 1)) % (T - 1)
    IN  IF u0 = S - 1 THEN src[u0 + 1]
        ELSE TruncDiv(src[u0 + 1] * (T - 1 - r), T - 1) + TruncDiv(src[u0 + 2] * r, T - 1)

ResampledTest == <<0, 0, 0, 0, 14, 112, 126, 126, 126, 127>>

Units16(x) ==
    IF x.e + 16 >= 0 THEN x.m * (2 ^ (x.e + 16))
    ELSE IF 0 - (x.e + 16) > 30 THEN 0
    ELSE x.m \div (2 ^ (0 - (x.e + 16)))

\* x is the f32 nearest ((raw + 128) / 255 - 0.5) * 2 = (2 * raw + 1) / 255,
\* to within 2^-16.
IsConverted(x, raw) ==
    /\ x.neg = (raw < 0)
    /\ Abs(Units16(x) - (Abs(2 * raw + 1) * 65536) \div 255) <= 1

IsOne(x) == F32Eq(x, F32Int(1))

\* C18: converting 8-bit signed PCM to normalized float maps raw to
\* ((raw + 128) / 255 - 0.5) * 2: the length is preserved, raw = -128 maps to
\* exactly -1.0, raw = 127 maps to exactly 1.0, and every raw value in
\* -128..127 maps into [-1, 1].
C18_Convert ==
    Applied("convert") =>
        LET src == calc.arg[1]
        IN  /\ Len(Result) = Len(src)
            /\ \A i \in 1..Len(src) :
                  /\ IsConverted(Result[i], src[i])
                  /\ Units16(Result[i]) <= 65536
                  /\ Units16(Result[i]) = 65536 => IsOne(Result[i])
                  /\ src[i] = 0 - 128 => (Result[i].neg /\ IsOne(Result[i]))
                  /\ src[i] = 127 => (~Result[i].neg /\ IsOne(Result[i]))

\* The signal of test_convert_i8_f32 has been converted: -1.0 four times,
\* four values just above 0, 1.0 four times.
C18_Witness ==
    /\ Applied("convert")
    /\ calc.arg = <<TestPcm>>
    /\ Len(Result) = 12
    /\ \A i \in 1..4 : Result[i].neg /\ IsOne(Result[i])
    /\ \A i \in 9..12 : ~Result[i].neg /\ IsOne(Result[i])
    /\ \A i \in 5..8 : ~Result[i].neg /\ Units16(Result[i]) = 257

\* What the envelope's last next call reported, and the call before it.
EnvLevel == Unwrap(env.ret)
PrevPhase == IF IsSome(env.prev) THEN Unwrap(env.prev).phase ELSE "none"
PrevLevel == Unwrap(Unwrap(env.prev).ret)
SustainLevel == Eighths(env.e.p.s_level)

\* Attack: a level, not below the attack level reported just before.
EnvAttack ==
    env.phase = "attack" =>
        /\ IsSome(env.ret)
        /\ PrevPhase \in {"none", "attack"}
        /\ PrevPhase = "attack" => ~F32Lt(EnvLevel, PrevLevel)

\* Decay: follows attack or decay; a level between the sustain level and
\* 1, not above the decay level reported just before.
EnvDecay ==
    env.phase = "decay" =>
        /\ IsSome(env.ret)
        /\ PrevPhase \in {"none", "attack", "decay"}
        /\ ~F32Lt(EnvLevel, SustainLevel)
        /\ ~F32Lt(F32Int(1), EnvLevel)
        /\ PrevPhase = "decay" => ~F32Lt(PrevLevel, EnvLevel)

\* Sustain: exactly the sustain level, on every call.
EnvSustain ==
    env.phase = "sustain" =>
        /\ IsSome(env.ret)
        /\ F32Eq(EnvLevel, SustainLevel)
        /\ PrevPhase \in {"none", "attack", "decay", "sustain"}
        /\ env.e.state = "Sustain"

\* Release: levels from the sustain level downwards, each below the one
\* before (equal when the sustain level is 0), reported only while the
\* time since trigger_end (ticks - 1 calls of 1/SampleRate s before this
\* one) is within the release time.
EnvRelease ==
    env.phase = "release" =>
        /\ IsSome(env.ret)
        /\ PrevPhase \in {"none", "release"}
        /\ ~F32Lt(SustainLevel, EnvLevel)
        /\ PrevPhase = "release" =>
              IF env.e.p.s_level = 0 THEN F32Eq(EnvLevel, PrevLevel)
              ELSE F32Lt(EnvLevel, PrevLevel)
        /\ 8 * (env.ticks - 1) <= SampleRate * env.e.p.r

\* The end of the release: no level once the release time has passed,
\* and none on any later call.
EnvReleased ==
    /\ env.phase = "released" =>
        /\ env.ret = None
        /\ PrevPhase \in {"none", "release"}
        /\ 8 * (env.ticks - 1) >= SampleRate * env.e.p.r
        /\ 8 * (env.ticks - 2) <= SampleRate * env.e.p.r
        /\ env.e.state = "Inactive"
    /\ env.phase = "inactive" =>
        /\ env.ret = None
        /\ PrevPhase \in {"none", "released", "inactive"}
    /\ (env.op = "next" /\ env.e.state = "Inactive") => env.ret = None

\* C19: after trigger_start the levels reported by successive next calls
\* do not decrease during attack, then do not increase and stay at or above
\* the sustain level during decay, then are exactly the sustain level on
\* every call during sustain; after trigger_end they decrease from at most
\* the sustain level for the release time, after which no level is
\* reported.
C19_EnvelopeShape ==
    EnvAttack /\ EnvDecay /\ EnvSustain /\ EnvRelease /\ EnvReleased

\* An envelope with an attack, a decay, a sustain level of 1/2 and a
\* release has been through all four phases and has just reported no level
\* at the end of its release.
C19_Witness ==
    /\ env.op = "next"
    /\ env.phase = "released"
    /\ PrevPhase = "release"
    /\ {"attack", "decay", "sustain", "release"} \subseteq env.seen
    /\ env.e.p.s_level = 4
    /\ env.e.p.a > 1 /\ env.e.p.d > 1 /\ env.e.p.r > 1

\* The key of the note of the last call on the pool
PoolKey == NoteApprox(Unwrap(poly.arg))

\* After start(n): one voice and one buffer per key, and under n's key the
\* voice the factory builds for n, just triggered, with a buffer of zeros.
PoolAfterStart ==
    poly.op = "start" =>
        /\ DOMAIN poly.g.generators = DOMAIN poly.g.scopes
        /\ PoolKey \in DOMAIN poly.g.generators
        /\ poly.g.generators[PoolKey] =
              VoiceTriggerStart(NoteGen(poly.g.f, Unwrap(poly.arg)))
        /\ poly.g.scopes[PoolKey] = ZeroBuffer
        /\ IsSome(poly.replaced) =>
              Unwrap(poly.replaced).scope.len = ZeroBuffer.len

\* A start adds at most its own key and leaves the voices and buffers of
\* the other keys, and the cursor, as they were.
PoolStartStep ==
    poly'.op = "start" =>
        LET k == NoteApprox(Unwrap(poly'.arg))
        IN  /\ DOMAIN poly'.g.generators = DOMAIN poly.g.generators \cup {k}
            /\ \A x \in DOMAIN poly.g.generators \ {k} :
                  /\ poly'.g.generators[x] = poly.g.generators[x]
                  /\ poly'.g.scopes[x] = poly.g.scopes[x]
            /\ poly'.g.scope_ix = poly.g.scope_ix

\* C20: for notes n1, n2 with NoteApprox(n1) = NoteApprox(n2), start(n1)
\* followed by start(n2) leaves exactly one pool entry for that key: the
\* first voice and its visualization buffer are discarded and replaced by
\* a freshly built, freshly triggered voice with a zero-filled buffer; the
\* entries of the other keys are not touched.
C20_Retrigger == [](PoolAfterStart) /\ [][PoolStartStep]_vars

\* A voice started for 440 Hz has played, leaving samples in its buffer,
\* and a start for 440.05 Hz (the same key) has just replaced it, next to
\* a voice under another key.
C20_Witness ==
    /\ poly.op = "start"
    /\ IsSome(poly.replaced)
    /\ Unwrap(poly.replaced).voice.note = F32Int(440)
    /\ Unwrap(poly.arg) /= F32Int(440)
    /\ Unwrap(poly.replaced).voice.e.t /= F32(0, 0)
    /\ DOMAIN Unwrap(poly.replaced).scope.written /= {}
    /\ Cardinality(DOMAIN poly.g.generators) = 2

\* The pool holds one entry, and one buffer, per key started so far.
PoolKeepsKeys ==
    /\ DOMAIN poly.g.generators = poly.started
    /\ DOMAIN poly.g.scopes = poly.started
    /\ Cardinality(DOMAIN poly.g.generators) = Cardinality(poly.started)

\* No call takes an entry away; a stop leaves every buffer, the cursor and
\* the voices of the other keys as they were, and the voice of its own key,
\* when there is one, is the same voice with its envelope just released.
PoolStopStep ==
    /\ Cardinality(DOMAIN poly'.g.generators) >=
          Cardinality(DOMAIN poly.g.generators)
    /\ DOMAIN poly.g.generators \subseteq DOMAIN poly'.g.generators
    /\ poly'.op = "stop" =>
          LET k == NoteApprox(Unwrap(poly'.arg))
          IN  /\ DOMAIN poly'.g.generators = DOMAIN poly.g.generators
              /\ poly'.g.scopes = poly.g.scopes
              /\ poly'.g.scope_ix = poly.g.scope_ix
              /\ \A x \in DOMAIN poly.g.generators \ {k} :
                    poly'.g.generators[x] = poly.g.generators[x]
              /\ k \in DOMAIN poly.g.generators =>
                    /\ poly'.g.generators[k].note = poly.g.generators[k].note
                    /\ poly'.g.generators[k].e.p = poly.g.generators[k].e.p
                    /\ poly'.g.generators[k].e.state = "Release"
                    /\ poly'.g.generators[k].e.t = F32(0, 0)

\* C21: stop(note) never removes a pool entry: under any sequence of start,
\* stop and next the number of pool entries never decreases and equals the
\* number of distinct keys started so far; a stop on a key with no voice
\* changes nothing and a stop on an existing key only signals trigger_end
\* to that one voice.
C21_StopKeepsEntries == [](PoolKeepsKeys) /\ [][PoolStopStep]_vars

\* Two keys have been started and have played; the voice of the stopped
\* key is still in the pool, released, with the samples it wrote.
C21_Witness ==
    /\ poly.op = "stop"
    /\ Cardinality(poly.started) = 2
    /\ PoolKey \in DOMAIN poly.g.generators
    /\ poly.g.generators[PoolKey].e.state = "Release"
    /\ DOMAIN poly.g.scopes[PoolKey].written /= {}

\* What a voice was built with
VoiceSettings(v) == [note |-> v.note, wk |-> v.wk, p |-> v.e.p]

AppVoices == app.sink.poly.generators

\* Right after a start from the keyboard the voice under the key is built
\* from the settings the synthesizer window shows, and is triggered.
VoiceStartedFromSettings ==
    app.last.op = "start" =>
        /\ app.last.key \in DOMAIN AppVoices
        /\ AppVoices[app.last.key].wk = app.synthesizer.waveform_kind
        /\ AppVoices[app.last.key].e.p = app.synthesizer.adsr_params
        /\ AppVoices[app.last.key].e.state = "AttackDecay"
        /\ AppVoices[app.last.key].e.t = F32(0, 0)

\* A step that edits the synthesizer or replaces the factory leaves the
\* voices as they are; a voice changes what it was built with only by
\* being started again under its key.
VoicesFrozenStep ==
    /\ (app'.synthesizer /= app.synthesizer \/ app'.sink.poly.f /= app.sink.poly.f)
          => app'.sink.poly.generators = AppVoices
    /\ DOMAIN AppVoices \subseteq DOMAIN app'.sink.poly.generators
    /\ \A k \in DOMAIN AppVoices :
          VoiceSettings(app'.sink.poly.generators[k]) /= VoiceSettings(AppVoices[k])
             => app'.last.op = "start" /\ app'.last.key = k

\* C22: a voice's waveform kind and ADSR parameters are fixed when
\* start(note) builds it: a later edit of the synthesizer's settings and a
\* later replacement of the note factory leave the parameters of every
\* existing voice unchanged and reach only the voices started afterwards.
C22_VoiceFrozen == [](VoiceStartedFromSettings) /\ [][VoicesFrozenStep]_vars

\* The voice of key H, started with the initial settings, has played on
\* with them after the settings were edited and the factory replaced; the
\* voice of key A, started after the edit, has the new settings.
C22_Witness ==
    /\ DOMAIN AppVoices = {NoteApprox(Unwrap(translate("H"))),
                           NoteApprox(Unwrap(translate("A")))}
    /\ VoiceSettings(AppVoices[NoteApprox(Unwrap(translate("H")))]).wk = "Sine"
    /\ VoiceSettings(AppVoices[NoteApprox(Unwrap(translate("H")))]).p = SynthParams
    /\ AppVoices[NoteApprox(Unwrap(translate("H")))].e.t /= F32(0, 0)
    /\ VoiceSettings(AppVoices[NoteApprox(Unwrap(translate("A")))]).wk = "Square"
    /\ VoiceSettings(AppVoices[NoteApprox(Unwrap(translate("A")))]).p = SlowParams
    /\ app.sink.poly.f = Factory("Square", SlowParams)
    /\ app.synthesizer.adsr_params = SlowParams

\* The positions of the control thread between taking and dropping the lock
UiCritical == {"kbd_notegen", "kbd_drain", "draw", "draw_end", "loading"}

\* A thread inside its critical section owns the mutex, so the two threads
\* are never inside together.
MutualExclusion ==
    /\ app.render.pc = "fill" => app.mutex.owner = "render"
    /\ app.ui \in UiCritical => app.mutex.owner = "ui"
    /\ ~(app.render.pc = "fill" /\ app.ui \in UiCritical)

\* The shared audio state changes only by a step of the thread that holds
\* the lock: during a batch by the render callback alone, during a control
\* mutation by the control thread alone.
AccessUnderLock ==
    app'.sink /= app.sink =>
        /\ app'.last.who \in {"ui", "render"}
        /\ app.mutex.owner = app'.last.who
        /\ app'.last.who = "ui" => app.ui \in UiCritical /\ app'.render = app.render
        /\ app'.last.who = "render" => app.render.pc = "fill" /\ app'.ui = app.ui

\* C23: render batches and control mutations are mutually exclusive: while
\* the render callback fills a buffer no control action changes the voice
\* pool or the player, no frame is rendered in the middle of a control
\* mutation, and every access to the shared audio state happens with the
\* single lock held.
C23_MutualExclusion == [](MutualExclusion) /\ [][AccessUnderLock]_vars

\* The callback is in the middle of a buffer, one frame rendered and one
\* to go, with a voice sounding and a player loaded, while a key event of
\* the control thread is due.
C23_Witness ==
    /\ app.render.pc = "fill"
    /\ app.render.frames = 1
    /\ app.last.op = "frame"
    /\ app.mutex.owner = "render"
    /\ app.ui = "idle"
    /\ app.keyboard.pressed /= {}
    /\ DOMAIN AppVoices /= {}
    /\ IsSome(app.sink.tracker.player)

\* C24: the render context never blocks on module loading or file I/O: no
\* critical section the render callback has to wait for contains a Module
\* load; a load runs to completion outside the shared lock and only its
\* finished result is installed under the lock.
C24_LoadOutsideLock == app.ui = "loading" => app.mutex.owner = "free"

\* C25: for every frame the mixed sample the render callback pulls
\* (PolyphonicGenerator.next() + Player.next(), each source summing its
\* voices with weight 0.3) lies within [-1,1] before it is scaled to the
\* 16-bit range, for any number of sounding pool voices and any state of
\* the 4 player channels, each voice producing values in [-1,1].
C25_MixInRange ==
    (calc.fn = "mix" /\ IsSome(calc.out)) =>
        ~F32Lt(F32Int(1), Mag(Unwrap(calc.out).v))

LoopStart == Unwrap(pb.repeat)[1]

\* C26: in a looped playback, on the next() call where the cursor has
\* reached loop_start + loop_length the playback enters Repeating and the
\* sample returned by that call is the one at loop_start; the following
\* calls return loop_start + 1, loop_start + 2, ..., so every pass of the
\* loop plays the indices loop_start .. loop_start + loop_length - 1 in
\* order.
C26_LoopPass ==
    (pb_op = "next" /\ IsSome(pb.repeat) /\ pb_prev.tag /= "Stopped") =>
        IF pb_prev.ix >= _length(pb)
        THEN /\ ~pb_panicked
             /\ pb_got = Some(LoopStart)
             /\ pb.state = Repeating(LoopStart + 1)
        ELSE /\ ~pb_panicked
             /\ pb_got = Some(pb_prev.ix)
             /\ pb.state.ix = pb_prev.ix + 1

\* C27: a non-looped playback of a signal of length L, after
\* trigger_start, outputs the samples at indices 0..L-1 in order, one per
\* next() call, is Stopped after these L samples and returns silence on
\* every later call until the next trigger_start.
C27_NonLooped ==
    (pb_op = "next" /\ ~IsSome(pb.repeat)) =>
        /\ ~pb_panicked
        /\ pb_prev.tag = "First" /\ pb_prev.ix < SignalLength(pb.signal) =>
              /\ pb_got = Some(pb_prev.ix)
              /\ pb.state = IF pb_prev.ix + 1 = SignalLength(pb.signal) THEN Stopped
                            ELSE First(pb_prev.ix + 1)
        /\ ~(pb_prev.tag = "First" /\ pb_prev.ix < SignalLength(pb.signal)) =>
              /\ pb_got = None
              /\ pb_ret = Silence
              /\ pb.state = Stopped

\* C28: while playing with unchanged tempo, consecutive row loads are
\* exactly divisionLengthSamples calls of Player.next() apart, and
\* consecutive tick events are exactly tickLengthSamples calls apart.
C28_Periods ==
    /\ IsSome(clock.load_gap) =>
          Unwrap(clock.load_gap) =
             DivisionLength(player.native_bpm, player.native_tpd, player.sample_rate)
    /\ IsSome(clock.tick_gap) =>
          Unwrap(clock.tick_gap) =
             TickLength(player.native_bpm, player.native_tpd, player.sample_rate)

\* C29: between any two consecutive row loads (from construction on, with
\* unchanged tempo) exactly tpd tick events occur, the first of them being
\* the row's entry tick, so a volume slide armed by a row is applied
\* exactly tpd - 1 times during that row.
C29_TicksPerRow ==
    IsSome(clock.row_ticks) => Unwrap(clock.row_ticks) = player.native_tpd

\* The row p has just loaded carries a tempo effect.
TempoRow(p) ==
    \E i \in Channels :
        effect(Cell(p, i)).kind \in {"SetBeatsPerMinute", "SetTicksPerDivision"}

\* The tempo effects of the row are in force: bpm and tpd are the values
\* of the effects and the countdown of the row is the division length at
\* that tempo.
TempoInForce(p) ==
    /\ \A i \in Channels :
          /\ effect(Cell(p, i)).kind = "SetBeatsPerMinute" =>
                p.native_bpm = effect(Cell(p, i)).x
          /\ effect(Cell(p, i)).kind = "SetTicksPerDivision" =>
                p.native_tpd = effect(Cell(p, i)).x
    /\ p.division_left = DivisionLength(p.native_bpm, p.native_tpd, p.sample_rate)

TempoAtConstruction ==
    (op = "new" /\ ~Panicked(player) /\ TempoRow(player)) => TempoInForce(player)

TempoAtRowLoad ==
    (op' = "next" /\ player.playing /\ player.division_left = 0
        /\ ~Panicked(player') /\ TempoRow(player')) => TempoInForce(player')

\* C30: a tempo effect takes effect immediately for the row that carries
\* it: right after loading a row with SetBeatsPerMinute{n} or
\* SetTicksPerDivision{n} (row 0 loaded at construction included) the
\* player's bpm / tpd equal n and the division countdown of that same row
\* equals the division length derived from the new bpm / tpd.
C30_TempoImmediate == [](TempoAtConstruction) /\ [][TempoAtRowLoad]_vars

\* The slide a cell arms: +up or -down when the cell is a VolumeSlide with
\* exactly one of up / down nonzero, none otherwise.
SlideOfCell(c) ==
    LET e == effect(c)
    IN  IF e.kind = "VolumeSlide" /\ e.x /= 0 /\ e.y = 0 THEN Some(e.x)
        ELSE IF e.kind = "VolumeSlide" /\ e.x = 0 /\ e.y /= 0 THEN Some(0 - e.y)
        ELSE None

\* The armed slides of p are those of the cells of its row.
SlidesOfRow(p) ==
    \A i \in Channels : Chan(p, i).volume_slide = SlideOfCell(Cell(p, i))

SlidesAtConstruction == (op = "new" /\ ~Panicked(player)) => SlidesOfRow(player)

\* A call of next() that loads a row leaves the slides of that row's cells
\* and no others; every other step leaves the slides as they are.
SlidesStep ==
    IF op' = "next" /\ player.playing /\ player.division_left = 0
    THEN ~Panicked(player') => SlidesOfRow(player')
    ELSE \A i \in Channels :
            Chan(player', i).volume_slide = Chan(player, i).volume_slide

\* C31: under construction and next(), a channel has an armed volume slide
\* only while the loaded row's cell for that channel is a VolumeSlide with
\* exactly one of up / down nonzero, and the delta is then +up or -down;
\* every row load clears the slides of all four channels before the row's
\* effects are applied, so a slide never outlives the row that armed it.
C31_SlideOfRow == [](SlidesAtConstruction) /\ [][SlidesStep]_vars

\* Row 63 has just been loaded after row 62, whose slide on channel 2 has
\* lowered the volume of the voice there, and no slide is armed any more.
C31_Witness ==
    /\ op = "next"
    /\ player.playing
    /\ ~Panicked(player)
    /\ player.row = 63
    /\ HasVoice(player, 2)
    /\ Voice(player, 2).volume < MaxVolume
    /\ \A i \in Channels : Chan(player, i).volume_slide = None

\* A release lasts about release * sampleRate calls of next().
ReleaseEnds ==
    env.e.state = "Release" => env.ticks * 8 <= env.e.p.r * SampleRate + 8

\* Once the release has run out the envelope stays Inactive and reports no
\* level, whatever is called, until trigger_start.
SilentUntilStart ==
    (env.e.state = "Inactive" /\ "released" \in env.seen
        /\ env'.op /= "trigger_start") =>
        /\ env'.e.state = "Inactive"
        /\ env'.op = "next" => env'.ret = None

\* C32 as stated: after trigger_end the ADSR envelope reaches Inactive
\* after finitely many next() calls (about release * sampleRate) and from
\* then on reports no level on every call until the next trigger_start,
\* whatever else is called in between (further next() or trigger_end
\* calls).
C32_ReleaseEndsAsStated == [](ReleaseEnds) /\ [][SilentUntilStart]_vars

\* Once the release has run out the envelope stays Inactive and reports no
\* level on every next(); a trigger_end, in whatever state, starts a
\* release anew.
SilentUntilTrigger ==
    /\ (env.e.state = "Inactive" /\ "released" \in env.seen /\ env'.op = "next") =>
          /\ env'.e.state = "Inactive"
          /\ env'.ret = None
    /\ env'.op = "trigger_end" =>
          /\ env'.e.state = "Release"
          /\ env'.e.t = F32(0, 0)
          /\ env'.ticks = 0

\* C32: counted from the last trigger_end, the ADSR envelope reaches
\* Inactive after finitely many next() calls (about release * sampleRate)
\* and from then on reports no level on every next() until the next
\* trigger_start or trigger_end; a further trigger_end, also on an
\* Inactive envelope, starts the release again.
C32_ReleaseEnds == [](ReleaseEnds) /\ [][SilentUntilTrigger]_vars

\* A release of more than one call has run out, and the call after the
\* one that found it over reports no level either.
C32_Witness ==
    /\ env.op = "next"
    /\ env.e.state = "Inactive"
    /\ env.phase = "inactive"
    /\ env.ret = None
    /\ IsSome(env.prev)
    /\ Unwrap(env.prev).phase = "released"
    /\ {"release", "released"} \subseteq env.seen
    /\ env.e.p.r > 1

\* The last next() before the latest trigger_end and the first one after
\* it both reported a level.
EndedLevel == Unwrap(Unwrap(env.ended).ret)
EndedPhase == Unwrap(env.ended).phase
AroundTriggerEnd ==
    /\ env.op = "next"
    /\ IsSome(env.ended)
    /\ IsSome(Unwrap(env.ended).ret)
    /\ IsSome(env.ret)

\* C33 as stated: trigger_end never raises the envelope level: in
\* whichever state it is called (attack, decay or sustain), the first
\* level reported after trigger_end is <= the last level reported before
\* it.
C33_NeverRaisesAsStated ==
    AroundTriggerEnd => ~F32Lt(EndedLevel, EnvLevel)

\* C33: the first level reported after trigger_end is the sustain level,
\* whatever the level before; it is <= the last level reported before
\* trigger_end when that level was reported in decay or sustain, or in
\* attack at or above the sustain level, and above it when trigger_end
\* comes in attack below the sustain level (as it is after a trigger_end
\* during an earlier release).
C33_ReleaseFromSustain ==
    AroundTriggerEnd =>
        /\ F32Eq(EnvLevel, SustainLevel)
        /\ EndedPhase \in {"decay", "sustain"} => ~F32Lt(EndedLevel, EnvLevel)
        /\ EndedPhase = "attack" =>
              (F32Lt(EndedLevel, EnvLevel) <=> F32Lt(EndedLevel, SustainLevel))

\* trigger_end in decay, above the sustain level, then the first release
\* level.
C33_Witness ==
    /\ AroundTriggerEnd
    /\ EndedPhase = "decay"
    /\ env.phase = "release"
    /\ F32Lt(EnvLevel, EndedLevel)
    /\ env.e.p.s_level > 0

\* C34: after any start, stop or next on the pool, the voice map and the
\* visualization buffer map have the same key set and every buffer has
\* exactly 512 entries.
C34_MapsInStep ==
    poly.op \in {"start", "stop", "next"} =>
        /\ DOMAIN poly.g.generators = DOMAIN poly.g.scopes
        /\ \A k \in DOMAIN poly.g.scopes :
              /\ poly.g.scopes[k].len = 512
              /\ DOMAIN poly.g.scopes[k].written \subseteq 0..511

\* Two voices after a next, one of them stopped and written into.
C34_Witness ==
    /\ poly.op = "next"
    /\ Cardinality(DOMAIN poly.g.generators) = 2
    /\ \E k \in DOMAIN poly.g.generators :
          /\ poly.g.generators[k].e.state = "Release"
          /\ poly.g.scopes[k].written /= <<>>

\* The index the last next wrote at.
LastIx(g) == g.scope_ix - 1

\* One call of next: a common index in 0..511, following the index of the
\* call before modulo 512 (0 on a new pool), at which every voice's sample
\* is recorded, every voice advanced by one sample, nothing else written.
NextStep ==
    poly'.op = "next" =>
        LET ix == LastIx(poly'.g)
        IN  /\ ix \in 0..511
            /\ ix = (LastIx(poly.g) + 1) % 512
            /\ DOMAIN poly'.g.generators = DOMAIN poly.g.generators
            /\ DOMAIN poly'.g.scopes = DOMAIN poly.g.scopes
            /\ \A k \in DOMAIN poly.g.generators :
                  /\ poly'.g.generators[k].e =
                        ADSR_next(poly.g.generators[k].e, EnvDelta).e
                  /\ poly'.mixed[k] = ADSR_next(poly.g.generators[k].e, EnvDelta).ret
                  /\ DOMAIN poly'.g.scopes[k].written =
                        DOMAIN poly.g.scopes[k].written \cup {ix}
                  /\ poly'.g.scopes[k].written[ix] = poly'.mixed[k]
                  /\ \A j \in DOMAIN poly.g.scopes[k].written \ {ix} :
                        poly'.g.scopes[k].written[j] = poly.g.scopes[k].written[j]

\* C35: each next() advances every voice of the pool exactly once and
\* records each voice's sample at one common index ix, 0 <= ix <= 511;
\* successive calls use successive indices modulo 512 (the first call
\* writes index 0); no write is out of range.
C35_CommonIndex ==
    /\ [](poly.op = "new" => LastIx(poly.g) + 1 \in PoolStarts)
    /\ [][NextStep]_vars

\* The cursor has wrapped: a voice has samples at 511 and at 0.
C35_Witness ==
    /\ poly.op = "next"
    /\ LastIx(poly.g) = 0
    /\ \E k \in DOMAIN poly.g.generators :
          {0, 511} \subseteq DOMAIN poly.g.scopes[k].written

\* a + b clamped to the range of an 8-bit sample
Clamped(x) == IF x < 0 - 128 THEN 0 - 128 ELSE IF x > 127 THEN 127 ELSE x

\* C36: the 8-bit sample kind's add operation saturates: for all a, b in
\* -128..127, a.add_saturated(b) equals a + b clamped to [-128, 127] and
\* never overflows or wraps.
C36_AddSaturates ==
    Applied("add") =>
        /\ ~Result.panic
        /\ Result.val = Clamped(calc.arg[1] + calc.arg[2])

\* C37: for every source length S >= 1, every target length T >= 1 and
\* every index i < T, get(i) of the resampled signal reads the source
\* only at indices < S and does not fail, the singular cases S = 1 and
\* T = 1 included.
C37_ReadsInSource ==
    Applied("get") =>
        /\ ~Result.panic
        /\ Result.reads /= {}
        /\ Result.reads \subseteq 0..(calc.arg[1] - 1)

\* The last index of a stretched signal: the read at the right-hand edge
\* of the source, alone.
C37_Witness ==
    /\ Applied("get")
    /\ calc.arg[1] >= 2
    /\ calc.arg[2] > calc.arg[1]
    /\ calc.arg[3] = calc.arg[2] - 1
    /\ Result.reads = {calc.arg[1] - 1}

\* Module::load has returned, with a module or with an error.
LoadReturns == app.ui = "loading" /\ app'.ui /= "loading"

\* The draw goes on under a lock that is still usable; a player other than
\* the one installed before is there only if the load built it.
LoadHandled ==
    /\ app'.ui = "draw_end"
    /\ ~app'.mutex.poisoned
    /\ app'.mutex.owner = "ui"
    /\ \/ app'.sink.tracker.player = app.sink.tracker.player
       \/ app'.sink.tracker.player = Some(PlayerNew(AppModule, overflow_checks))

\* The render callback never finds the lock unusable.
RenderKeepsOn == app'.last /= Did("render", "panic", 0) \/ ~app.mutex.poisoned

\* C38: when loading a module chosen in the file picker fails, the failure
\* is handled as a value: the player installed before (or the absence of
\* one) is unchanged, the shared lock stays usable and the render callback
\* keeps producing frames afterwards.
C38_LoadFailureHandled ==
    [][(LoadReturns => LoadHandled) /\ RenderKeepsOn]_vars

\* Play pressed right after Stop: the player is where Player::new on the
\* same module puts it, and playing.
RestartsFresh ==
    (op = "stop" /\ op' = "play") =>
        LET fresh == PlayerNew(player.module, overflow_checks)
        IN  /\ player'.playing
            /\ player'.program = 0
            /\ player'.pattern = ModProgramAt(player.module, 0)
            /\ player'.row = 0
            /\ player'.tick = fresh.tick
            /\ player'.tick_left = fresh.tick_left
            /\ player'.division_left = fresh.division_left
            /\ player'.incoming_break = fresh.incoming_break
            /\ player'.channels = fresh.channels

\* C39: after Stop, followed by Play, playback restarts from the beginning
\* of the song as a freshly constructed Player would: program index 0,
\* pattern program[0], row 0 with that row's cells loaded and their voices
\* triggered, full tick and division countdowns, no pending pattern break
\* and no voices left over from before the Stop.
C39_StopThenPlay == [][RestartsFresh]_vars

\* The events of the key c among the events evs, in order.
EventsOf(evs, c) == SelectSeq(evs, LAMBDA ev : ev.kc = c)

\* Down, Up, Down, ... : the first event is a Down and no two neighbours
\* are of the same kind.
Alternates(evs) ==
    /\ evs /= <<>> => evs[1].kind = "Down"
    /\ \A i \in 1..(Len(evs) - 1) : evs[i].kind /= evs[i + 1].kind

\* The events drained are the first events enqueued, in their order, and
\* the queue holds the rest; per key they alternate, and the key is held
\* exactly when its last event enqueued is a Down.
KeyEventsAlternate ==
    /\ kbd.pushed = kbd.drained \o kbd.kb.queue
    /\ \A c \in PianoKeys :
          /\ Alternates(EventsOf(kbd.drained, c))
          /\ Alternates(EventsOf(kbd.pushed, c))
          /\ c \in kbd.kb.pressed <=>
                /\ EventsOf(kbd.pushed, c) /= <<>>
                /\ EventsOf(kbd.pushed, c)[Len(EventsOf(kbd.pushed, c))].kind = "Down"

\* A press of a held key and a release of a key that is not held change
\* nothing; any other press or release enqueues one event.
IdleCallsEnqueueNothing ==
    /\ (kbd'.op = "press" /\ kbd'.key \in kbd.kb.pressed) => kbd'.kb = kbd.kb
    /\ (kbd'.op = "release" /\ kbd'.key \notin kbd.kb.pressed) => kbd'.kb = kbd.kb
    /\ (kbd'.op = "press" /\ kbd'.key \notin kbd.kb.pressed) =>
          kbd'.kb.queue = Append(kbd.kb.queue, [kind |-> "Down", kc |-> kbd'.key])
    /\ (kbd'.op = "release" /\ kbd'.key \in kbd.kb.pressed) =>
          kbd'.kb.queue = Append(kbd.kb.queue, [kind |-> "Up", kc |-> kbd'.key])

\* C40: for each key, under any sequence of press / release / drain calls,
\* the events returned by drain() alternate strictly between Down and Up
\* starting with Down, in the order they were queued; a press of a key
\* already held and a release of a key not held enqueue nothing; a key is
\* in the pressed set exactly when its last queued event is a Down.
C40_KeyEvents == [](KeyEventsAlternate) /\ [][IdleCallsEnqueueNothing]_vars

\* A key pressed twice and released twice with the other key in between:
\* Down, Up, Down of the key drained, the last Up still queued.
C40_Witness ==
    /\ kbd.op = "release"
    /\ Len(EventsOf(kbd.drained, "H")) = 3
    /\ EventsOf(kbd.drained, "A") /= <<>>
    /\ kbd.kb.queue = <<[kind |-> "Up", kc |-> "H"]>>
    /\ "H" \notin kbd.kb.pressed
====
